---- MODULE Spec2Model ----
(***************************************************************************)
(* Model of the gesture recognition pipeline of the gesture todo           *)
(* application: GestureRecognizer (services/gestureRecognizer.ts), i.e.    *)
(* the landmark geometry predicates, classifyGesture, the temporal         *)
(* stabilizer handleGestureDetection, and the session life cycle           *)
(* initialize / processFrame / onResults / dispose around the external     *)
(* hand tracker.                                                           *)
(*                                                                         *)
(* Numbers.  gestureConfidence, confidenceThreshold and the window ratio   *)
(* are IEEE-754 doubles in the program.  They are modelled bit-exactly as  *)
(* binary fixed point numbers with round-to-nearest-even (the F* operators *)
(* below).  Landmark coordinates are modelled on a grid of hundredths.     *)
(***************************************************************************)
EXTENDS Integers, Sequences, FiniteSets, TLC

(***************************************************************************)
(* Bounds of the model.                                                    *)
(***************************************************************************)
MaxFrames == 6

MaxDebounce == 3

MaxHistory == 3

MaxSessionFrames == 2

MaxHandles == 2

MaxStream == 12

MaxAlternating == 60

MaxErrors == 4

MaxTasks == 2

MaxAddCalls == 3

MaxDbTasks == 2

MaxRecognizers == 2

MaxPrefix == 10

\* calls of DatabaseFactory in flight at once
MaxFactoryCalls == 2

\* calls of initialize() on one IndexedDBTodoDatabase
MaxInitCalls == 8

(***************************************************************************)
(* IEEE-754 double arithmetic on the range the stabilizer uses.            *)
(* A double x with 0 <= x < 2 that is 0 or at least 2^-5 is a multiple of  *)
(* 2^-57; it is written <<a, b, c>> with x = (a*2^38 + b*2^19 + c) * 2^-57.*)
(***************************************************************************)
Limb == 2^19

FZero == <<0, 0, 0>>

FNorm(a, b, c) ==
    LET cb == b + (c \div Limb)
    IN  <<a + (cb \div Limb), cb % Limb, c % Limb>>

FLess(x, y) ==
    \/ x[1] < y[1]
    \/ x[1] = y[1] /\ x[2] < y[2]
    \/ x[1] = y[1] /\ x[2] = y[2] /\ x[3] < y[3]

FGeq(x, y) == ~FLess(x, y)

\* Math.min on doubles
FMin(x, y) == IF FLess(y, x) THEN y ELSE x

\* unit in the last place of the binade of x, in multiples of 2^-57
FUlp(x) ==
    IF x[1] >= Limb THEN 32
    ELSE IF x[1] >= Limb \div 2 THEN 16
    ELSE IF x[1] >= Limb \div 4 THEN 8
    ELSE IF x[1] >= Limb \div 8 THEN 4
    ELSE IF x[1] >= Limb \div 16 THEN 2
    ELSE 1

\* round-to-nearest, ties-to-even; sticky says that the exact value is
\* strictly above x
FRound(x, sticky) ==
    LET g    == FUlp(x)
        low  == x[3] % g
        odd  == (x[3] \div g) % 2 = 1
        up   == \/ 2 * low > g
                \/ 2 * low = g /\ (sticky \/ odd)
    IN  FNorm(x[1], x[2], (x[3] - low) + (IF up THEN g ELSE 0))

\* x + y on doubles
FAdd(x, y) == FRound(FNorm(x[1] + y[1], x[2] + y[2], x[3] + y[3]), FALSE)

\* p / q on doubles for integers 0 <= p < 2*q, q <= 16 (also the value of a
\* decimal literal p/q, which is rounded the same way)
FDiv(p, q) ==
    LET a  == (p * Limb) \div q
        r1 == (p * Limb) % q
        b  == (r1 * Limb) \div q
        r2 == (r1 * Limb) % q
        c  == (r2 * Limb) \div q
        r3 == (r2 * Limb) % q
    IN  FRound(<<a, b, c>>, r3 # 0)

\* variant: the confidence is raised by 0.0625 a frame
ConfidenceStepSmaller == FDiv(1, 16)

\* the literal 0.1 of handleGestureDetection
ConfidenceStep == FDiv(1, 10)

(***************************************************************************)
(* Gesture labels (types/index.ts GestureType).                            *)
(***************************************************************************)
GestureType ==
    {"thumbs_up", "peace_sign", "fist", "point_up", "two_fingers",
     "open_palm", "none"}

\* "no emission" of one stabilizer call (the callback was not invoked)
NoEmission == "null"

(***************************************************************************)
(* Landmarks.  A landmark is <<x, y>> in hundredths of the normalized      *)
(* frame (y grows downward).  A landmark list is a record                  *)
(* [present |-> TRUE, len |-> number of landmarks, pt |-> index ->         *)
(* landmark]; the absent list (null / undefined) is NoLandmarks.           *)
(***************************************************************************)
NoLandmarks == [present |-> FALSE, len |-> 0, pt |-> <<>>]

LandmarkCount == 21

FingerTips == [thumb |-> 4, index |-> 8, middle |-> 12, ring |-> 16, pinky |-> 20]

FingerMcps == [thumb |-> 2, index |-> 5, middle |-> 9, ring |-> 13, pinky |-> 17]

WristIndex == 0

Dist2(p, q) == (p[1] - q[1]) * (p[1] - q[1]) + (p[2] - q[2]) * (p[2] - q[2])

\* floor of the square root
RECURSIVE SqrtSearch(_, _, _)
SqrtSearch(n, lo, hi) ==
    IF lo >= hi THEN lo
    ELSE LET mid == (lo + hi + 1) \div 2
         IN  IF mid * mid <= n THEN SqrtSearch(n, mid, hi)
             ELSE SqrtSearch(n, lo, mid - 1)

\* Math.sqrt in tenths of a coordinate unit, rounded down
Sqrt10(n) == SqrtSearch(100 * n, 0, 2000)

getFingerTipPositions(lm) == [f \in DOMAIN FingerTips |-> lm.pt[FingerTips[f]]]

getFingerMcpPositions(lm) == [f \in DOMAIN FingerMcps |-> lm.pt[FingerMcps[f]]]

\* tip is higher than the MCP joint
isFingerExtended(tip, mcp) == tip[2] < mcp[2]

\* tipDistance > mcpDistance * 1.2, compared on the squares
isThumbExtended(lm) ==
    25 * Dist2(lm.pt[4], lm.pt[WristIndex]) > 36 * Dist2(lm.pt[2], lm.pt[WristIndex])

\* variant: the margin 0.1 of isFingerPointingUp is used for the thumb
isThumbPointingUpWide(lm) == lm.pt[4][2] < lm.pt[2][2] - 10

\* thumbTip.y < thumbMcp.y - 0.05
isThumbPointingUp(lm) == lm.pt[4][2] < lm.pt[2][2] - 5

\* tip.y < wrist.y - 0.1
isFingerPointingUp(tip, wrist) == tip[2] < wrist[2] - 10

\* distance > 0.05
areFingersSpread(f1, f2) == Dist2(f1, f2) > 25

\* sum of the four fingertip-to-wrist distances, in tenths of a unit,
\* rounded down per distance (so the exact sum is in [s, s + 4))
PalmDistanceSum(lm) ==
    LET tips == getFingerTipPositions(lm)
        w    == lm.pt[WristIndex]
    IN  Sqrt10(Dist2(tips.index, w)) + Sqrt10(Dist2(tips.middle, w))
          + Sqrt10(Dist2(tips.ring, w)) + Sqrt10(Dist2(tips.pinky, w))

\* avgDistance > 0.15 * sensitivity; sens is the sensitivity in tenths
isPalmOpen(lm, sens) == PalmDistanceSum(lm) > 60 * sens

\* the fixed point sum decides the comparison of isPalmOpen exactly
PalmDecided(lm, sens) ==
    PalmDistanceSum(lm) > 60 * sens \/ PalmDistanceSum(lm) + 4 <= 60 * sens

ExtendedCount(flags) == Cardinality({f \in DOMAIN flags : flags[f]})

ExtensionFlags(lm) ==
    LET tips == getFingerTipPositions(lm)
        mcps == getFingerMcpPositions(lm)
    IN  [thumb  |-> isThumbExtended(lm),
         index  |-> isFingerExtended(tips.index, mcps.index),
         middle |-> isFingerExtended(tips.middle, mcps.middle),
         ring   |-> isFingerExtended(tips.ring, mcps.ring),
         pinky  |-> isFingerExtended(tips.pinky, mcps.pinky)]

ClassifyThumbsUp(lm, e) ==
    /\ e.thumb /\ ~e.index /\ ~e.middle /\ ~e.ring /\ ~e.pinky
    /\ isThumbPointingUp(lm)

ClassifyPeaceSign(lm, e) ==
    /\ ~e.thumb /\ e.index /\ e.middle /\ ~e.ring /\ ~e.pinky
    /\ areFingersSpread(lm.pt[8], lm.pt[12])

ClassifyPointUp(lm, e) ==
    /\ ~e.thumb /\ e.index /\ ~e.middle /\ ~e.ring /\ ~e.pinky
    /\ isFingerPointingUp(lm.pt[8], lm.pt[WristIndex])

ClassifyTwoFingers(lm, e) ==
    /\ ~e.thumb /\ e.index /\ e.middle /\ ~e.ring /\ ~e.pinky
    /\ ~areFingersSpread(lm.pt[8], lm.pt[12])

\* variant: the final return "none" is missing
classifyGestureNoDefault(lm, sens) ==
    IF ~lm.present THEN "none"
    ELSE IF lm.len < LandmarkCount THEN "none"
    ELSE LET e == ExtensionFlags(lm)
         IN  IF ClassifyThumbsUp(lm, e) THEN "thumbs_up"
             ELSE IF ClassifyPeaceSign(lm, e) THEN "peace_sign"
             ELSE IF ClassifyPointUp(lm, e) THEN "point_up"
             ELSE IF ClassifyTwoFingers(lm, e) THEN "two_fingers"
             ELSE IF ExtendedCount(e) <= 1 THEN "fist"
             ELSE IF ExtendedCount(e) >= 4 /\ isPalmOpen(lm, sens) THEN "open_palm"
             ELSE "undefined"

\* variant: the count-based fist rule is tested before the subset rules
classifyGestureCountFirst(lm, sens) ==
    IF ~lm.present THEN "none"
    ELSE IF lm.len < LandmarkCount THEN "none"
    ELSE LET e == ExtensionFlags(lm)
         IN  IF ExtendedCount(e) <= 1 THEN "fist"
             ELSE IF ClassifyThumbsUp(lm, e) THEN "thumbs_up"
             ELSE IF ClassifyPeaceSign(lm, e) THEN "peace_sign"
             ELSE IF ClassifyPointUp(lm, e) THEN "point_up"
             ELSE IF ClassifyTwoFingers(lm, e) THEN "two_fingers"
             ELSE IF ExtendedCount(e) >= 4 /\ isPalmOpen(lm, sens) THEN "open_palm"
             ELSE "none"

classifyGesture(lm, sens) ==
    IF ~lm.present THEN "none"
    ELSE IF lm.len < LandmarkCount THEN "none"
    ELSE LET e == ExtensionFlags(lm)
         IN  IF ClassifyThumbsUp(lm, e) THEN "thumbs_up"
             ELSE IF ClassifyPeaceSign(lm, e) THEN "peace_sign"
             ELSE IF ClassifyPointUp(lm, e) THEN "point_up"
             ELSE IF ClassifyTwoFingers(lm, e) THEN "two_fingers"
             ELSE IF ExtendedCount(e) <= 1 THEN "fist"
             ELSE IF ExtendedCount(e) >= 4 /\ isPalmOpen(lm, sens) THEN "open_palm"
             ELSE "none"

(***************************************************************************)
(* State.                                                                  *)
(***************************************************************************)
VARIABLES
    \* GestureRecognizer configuration (readonly fields set by the constructor)
    confidenceThreshold, debounceFrames, historySize, sensitivity,
    \* GestureRecognizer fields
    hands, isInitialized, lastGesture, gestureConfidence, frameCount,
    gestureHistory,
    \* the external tracker: state of every handle, the handles that have a
    \* results callback registered, the handles with a send() in flight
    tracker, callbacks, inflight,
    \* observations: the last operation and its outcome, what the last
    \* stabilizer call emitted, emissions and stabilizer calls since
    \* construction or dispose, the call of the first emission, whether only
    \* none has been fed, the life cycle of the session
    lastOp, emitted, emitCount, callCount, firstEmit, onlyNone, session,
    everDisposed,
    \* the label stream of the stream scenarios
    stream,
    \* classification scenario: the input landmark list and the label returned
    landmarks, classified,
    \* error statistics: the configured maximum, the failed processFrame calls
    \* in a row, the retries the recognizer has started
    maxRetries, consecutiveErrors, retryCount,
    \* TodoProvider: the reducer state, the addTask calls that await the
    \* database, the next id the database hands out, the ids of the addTask
    \* calls that have completed successfully
    todoState, addCalls, nextId, addedOk,
    \* GestureManager: the isEnabled prop, its state hooks, the gesture
    \* command that awaits the task list, and what the last gesture event
    \* delivered to handleGestureDetected made it call
    isEnabled, isProcessing, showAddTaskDialog, newTaskText, feedbackMessage,
    pendingCommand, issued,
    \* DatabaseFactory: the kind of its instance, its backup and its fallback
    \* flag; the content of the IndexedDB store (which outlives an instance)
    \* and of the in-memory database
    dbInstance, fallbackData, isUsingFallback, stored, memory,
    \* GestureManager's frame loops: the recognizers its effect has created
    \* (their state, consecutive errors and the retryCount their error
    \* callback was created with), gestureRecognizerRef.current, the loop
    \* started for each recognizer and the recognizer its processFrame call
    \* is on, the fallbackMode and retryCount states, and whether the last
    \* effect run returned a cleanup
    recognizerState, recErrors, recRetry, gestureRecognizerRef, loopState,
    loopTarget, fallbackMode, managerRetryCount, effectActive,
    \* AppContext: state.gestureSettings (sensitivity and confidenceThreshold
    \* in tenths, debounceTime in milliseconds)
    gestureSettings,
    \* the held-gesture scenario: the label being held ("nothing" before)
    \* and the calls made since the hold began or last emitted
    holding, sinceEmit,
    \* the calls of DatabaseFactory in flight
    factoryCalls,
    \* one IndexedDBTodoDatabase: isInitialized, initializationPromise, the
    \* runs of performInitialization and the calls of initialize()
    dbIsInitialized, initializationPromise, attempts, initCalls

configVars == <<confidenceThreshold, debounceFrames, historySize, sensitivity>>

stabilizerVars == <<lastGesture, gestureConfidence, frameCount, gestureHistory>>

sessionVars == <<hands, isInitialized>>

trackerVars == <<tracker, callbacks, inflight>>

observedVars == <<emitted, emitCount, callCount, firstEmit, onlyNone>>

scenarioVars == <<stream, landmarks, classified>>

\* error statistics of the recognizer (getErrorStats)
errorVars == <<maxRetries, consecutiveErrors, retryCount>>

\* state outside the GestureRecognizer fields of the session scenarios
todoVars == <<todoState, addCalls, nextId, addedOk>>

managerVars == <<isEnabled, isProcessing, showAddTaskDialog, newTaskText,
                 feedbackMessage, pendingCommand, issued>>

dbVars == <<dbInstance, fallbackData, isUsingFallback, stored, memory>>

loopVars ==
    <<recognizerState, recErrors, recRetry, gestureRecognizerRef, loopState,
      loopTarget, fallbackMode, managerRetryCount, effectActive>>

settingsVars == <<gestureSettings>>

heldVars == <<holding, sinceEmit>>

asyncDbVars ==
    <<factoryCalls, dbIsInitialized, initializationPromise, attempts, initCalls>>

appVars == <<errorVars, todoVars, managerVars, dbVars, loopVars, settingsVars, heldVars, asyncDbVars>>

vars == <<configVars, stabilizerVars, sessionVars, trackerVars, observedVars,
          lastOp, session, everDisposed, scenarioVars, appVars>>

NoHandle == 0

Handles == 1..MaxHandles

Min(a, b) == IF a < b THEN a ELSE b

Max(a, b) == IF a > b THEN a ELSE b

\* the state of the recognizer and its tracker, which the task list and the
\* GestureManager handlers do not touch
recognizerVars ==
    <<configVars, stabilizerVars, sessionVars, trackerVars, observedVars,
      session, everDisposed, scenarioVars, errorVars, dbVars, loopVars,
      settingsVars, heldVars, asyncDbVars>>

(***************************************************************************)
(* The temporal stabilizer: handleGestureDetection.                        *)
(***************************************************************************)
\* variant: pop() instead of shift(), the newest entry is evicted
PushHistoryEvictsNewest(h, g) ==
    LET p == Append(h, g)
    IN  IF Len(p) > historySize THEN SubSeq(p, 1, Len(p) - 1) ELSE p

\* gestureHistory.push(gesture); shift() when longer than historySize
PushHistory(h, g) ==
    LET p == Append(h, g)
    IN  IF Len(p) > historySize THEN Tail(p) ELSE p

\* variant: the window is the current frame only
RecentGesturesLastOnly(h) == SubSeq(h, Len(h), Len(h))

\* gestureHistory.slice(-debounceFrames)
RecentGestures(h) == SubSeq(h, Len(h) - Min(debounceFrames, Len(h)) + 1, Len(h))

GestureCount(recent, g) == Cardinality({i \in 1..Len(recent) : recent[i] = g})

\* gestureCount / recentGestures.length
CurrentConfidence(h, g) ==
    LET recent == RecentGestures(h)
    IN  FDiv(GestureCount(recent, g), Len(recent))

\* variant: the raised confidence is not capped by the window ratio
UpdatedConfidenceUncapped(conf, last, g, cur) ==
    IF g = last THEN FAdd(conf, ConfidenceStep) ELSE cur

\* variant: a new label starts at 0.1 instead of the window ratio
UpdatedConfidenceFixedStart(conf, last, g, cur) ==
    IF g = last THEN FMin(FAdd(conf, ConfidenceStep), cur) ELSE ConfidenceStep

UpdatedConfidence(conf, last, g, cur) ==
    IF g = last THEN FMin(FAdd(conf, ConfidenceStep), cur) ELSE cur

\* variant: the confidence must exceed the threshold
ShouldTriggerAboveThreshold(conf, fc, g) ==
    /\ FLess(confidenceThreshold, conf)
    /\ fc % debounceFrames = 0
    /\ g # "none"

\* variant: the label none is not excluded
ShouldTriggerAnyLabel(conf, fc, g) ==
    /\ FGeq(conf, confidenceThreshold)
    /\ fc % debounceFrames = 0

\* variant: the debounce interval is not checked
ShouldTriggerEveryFrame(conf, fc, g) ==
    /\ FGeq(conf, confidenceThreshold)
    /\ g # "none"

ShouldTrigger(conf, fc, g) ==
    /\ FGeq(conf, confidenceThreshold)
    /\ fc % debounceFrames = 0
    /\ g # "none"

handleGestureDetection(g) ==
    LET fc   == frameCount + 1
        h    == PushHistory(gestureHistory, g)
        cur  == CurrentConfidence(h, g)
        conf == UpdatedConfidence(gestureConfidence, lastGesture, g, cur)
        fire == ShouldTrigger(conf, fc, g)
    IN  /\ frameCount' = fc
        /\ gestureHistory' = h
        /\ lastGesture' = g
        /\ gestureConfidence' = IF fire THEN FZero ELSE conf
        /\ emitted' = IF fire THEN g ELSE NoEmission
        /\ emitCount' = emitCount + (IF fire THEN 1 ELSE 0)
        /\ callCount' = callCount + 1
        /\ firstEmit' = IF fire /\ firstEmit = 0 THEN callCount + 1 ELSE firstEmit
        /\ onlyNone' = (onlyNone /\ g = "none")

getStats ==
    [lastGesture   |-> lastGesture,
     confidence    |-> gestureConfidence,
     frameCount    |-> frameCount,
     historyLength |-> Len(gestureHistory)]

\* the values of the field initializers
InitialStats ==
    [lastGesture |-> "none", confidence |-> FZero, frameCount |-> 0,
     historyLength |-> 0]

(***************************************************************************)
(* The session: initialize, processFrame, onResults, dispose.              *)
(***************************************************************************)
\* a tracker result: multiHandLandmarks may be absent, empty, or hold hands
NoHandsField == [present |-> FALSE, multiHandLandmarks |-> <<>>]

HandsResult(list) == [present |-> TRUE, multiHandLandmarks |-> list]

onResults(results) ==
    IF ~results.present \/ Len(results.multiHandLandmarks) = 0
    THEN handleGestureDetection("none")
    ELSE handleGestureDetection(
             classifyGesture(results.multiHandLandmarks[1], sensitivity))

UnusedHandles == {h \in Handles : tracker[h] = "unused"}

NewHandle == CHOOSE h \in UnusedHandles : \A k \in UnusedHandles : h <= k

\* variant: isInitialized is set right after new Hands(), before the handle
\* is configured
InitializeMarksFirst(outcome) ==
    /\ \/ /\ outcome = "constructFails"
          /\ UNCHANGED <<hands, isInitialized, tracker, callbacks, session>>
       \/ /\ outcome = "configureFails"
          /\ UnusedHandles # {}
          /\ hands' = NewHandle
          /\ tracker' = [tracker EXCEPT ![NewHandle] = "open"]
          /\ isInitialized' = TRUE
          /\ UNCHANGED <<callbacks, session>>
       \/ /\ outcome = "ok"
          /\ UnusedHandles # {}
          /\ hands' = NewHandle
          /\ tracker' = [tracker EXCEPT ![NewHandle] = "open"]
          /\ callbacks' = callbacks \cup {NewHandle}
          /\ isInitialized' = TRUE
          /\ session' = "Ready"
    /\ lastOp' = [op |-> "initialize",
                  outcome |-> IF outcome = "ok" THEN "ok" ELSE "throw"]
    /\ UNCHANGED <<configVars, stabilizerVars, inflight, observedVars,
                   everDisposed, scenarioVars, appVars>>

\* initialize(): new Hands(), setOptions(), onResults(), isInitialized = true.
\* outcome "constructFails": new Hands throws; "configureFails": setOptions
\* or onResults throws; "ok": no call throws.
Initialize(outcome) ==
    /\ \/ /\ outcome = "constructFails"
          /\ UNCHANGED <<hands, isInitialized, tracker, callbacks, session>>
       \/ /\ outcome = "configureFails"
          /\ UnusedHandles # {}
          /\ hands' = NewHandle
          /\ tracker' = [tracker EXCEPT ![NewHandle] = "open"]
          /\ UNCHANGED <<isInitialized, callbacks, session>>
       \/ /\ outcome = "ok"
          /\ UnusedHandles # {}
          /\ hands' = NewHandle
          /\ tracker' = [tracker EXCEPT ![NewHandle] = "open"]
          /\ callbacks' = callbacks \cup {NewHandle}
          /\ isInitialized' = TRUE
          /\ session' = "Ready"
    /\ lastOp' = [op |-> "initialize",
                  outcome |-> IF outcome = "ok" THEN "ok" ELSE "throw"]
    /\ UNCHANGED <<configVars, stabilizerVars, inflight, observedVars,
                   everDisposed, scenarioVars, appVars>>

\* variant: only the handle is checked
NotInitializedHandleOnly == hands = NoHandle

\* the guard of processFrame: !this.hands || !this.isInitialized
NotInitialized == hands = NoHandle \/ ~isInitialized

\* processFrame(): throws when not initialized, else awaits hands.send().
\* The caller's frame loop awaits processFrame before it sends the next frame,
\* so a handle has at most one send in flight.
ProcessFrame ==
    /\ IF NotInitialized
       THEN /\ lastOp' = [op |-> "processFrame", outcome |-> "throw"]
            /\ UNCHANGED inflight
       ELSE /\ hands \notin inflight
            /\ inflight' = inflight \cup {hands}
            /\ lastOp' = [op |-> "processFrame", outcome |-> "sent"]
    /\ UNCHANGED <<configVars, stabilizerVars, sessionVars, tracker, callbacks,
                   observedVars, session, everDisposed, scenarioVars, appVars>>

\* the tracker settles a send(): processFrame returns, or logs and rethrows
SendSettles(h, outcome) ==
    /\ h \in inflight
    /\ inflight' = inflight \ {h}
    /\ lastOp' = [op |-> "send", outcome |-> outcome]
    /\ UNCHANGED <<configVars, stabilizerVars, sessionVars, tracker, callbacks,
                   observedVars, session, everDisposed, scenarioVars, appVars>>

\* the tracker invokes the results callback registered on handle h for a
\* frame that was sent to it
TrackerResult(h, results) ==
    /\ h \in inflight
    /\ h \in callbacks
    /\ frameCount < MaxSessionFrames
    /\ onResults(results)
    /\ lastOp' = [op |-> "onResults", outcome |-> "ok"]
    /\ UNCHANGED <<configVars, sessionVars, trackerVars, session, everDisposed,
                   scenarioVars, appVars>>

\* handleGestureDetection when the consumer's onGestureDetected throws: the
\* fields are updated, the callback is invoked, and the reset of the
\* confidence after the call is not reached
handleGestureDetectionCallbackThrows(g) ==
    LET fc   == frameCount + 1
        h    == PushHistory(gestureHistory, g)
        cur  == CurrentConfidence(h, g)
        conf == UpdatedConfidence(gestureConfidence, lastGesture, g, cur)
    IN  /\ ShouldTrigger(conf, fc, g)
        /\ frameCount' = fc
        /\ gestureHistory' = h
        /\ lastGesture' = g
        /\ gestureConfidence' = conf
        /\ emitted' = g
        /\ emitCount' = emitCount + 1
        /\ callCount' = callCount + 1
        /\ firstEmit' = IF firstEmit = 0 THEN callCount + 1 ELSE firstEmit
        /\ onlyNone' = FALSE

\* onResults when an exception is raised while the result is handled: in
\* classifyGesture (a hand whose landmark entries cannot be read), before
\* the stabilizer is called, or in the consumer's callback.  onResults has
\* no handler, so the exception leaves it.
onResultsThrows(results, where) ==
    /\ results.present
    /\ Len(results.multiHandLandmarks) > 0
    /\ IF where = "classify"
       THEN UNCHANGED <<stabilizerVars, observedVars>>
       ELSE handleGestureDetectionCallbackThrows(
                classifyGesture(results.multiHandLandmarks[1], sensitivity))

\* the tracker invokes the results callback on handle h and the callback
\* throws into the tracker.  rejects: the tracker lets the exception reject
\* the send() the frame came from, and processFrame logs and rethrows it;
\* otherwise the tracker drops it and the send settles later.
TrackerResultThrows(h, results, where, rejects) ==
    /\ h \in inflight
    /\ h \in callbacks
    /\ frameCount < MaxSessionFrames
    /\ onResultsThrows(results, where)
    /\ inflight' = IF rejects THEN inflight \ {h} ELSE inflight
    /\ lastOp' = [op |-> "onResults",
                  outcome |-> IF rejects THEN "throwRejectsSend" ELSE "throw"]
    /\ UNCHANGED <<configVars, sessionVars, tracker, callbacks, session,
                   everDisposed, scenarioVars, appVars>>

\* variant: isInitialized is not reset
DisposeSessionKeepsInitialized ==
    /\ tracker' = IF hands # NoHandle
                  THEN [tracker EXCEPT ![hands] =
                           IF @ = "open" THEN "closed" ELSE "closedTwice"]
                  ELSE tracker
    /\ hands' = NoHandle
    /\ UNCHANGED isInitialized

\* dispose(), first part: close and drop the handle
DisposeSession ==
    /\ tracker' = IF hands # NoHandle
                  THEN [tracker EXCEPT ![hands] =
                           IF @ = "open" THEN "closed" ELSE "closedTwice"]
                  ELSE tracker
    /\ hands' = NoHandle
    /\ isInitialized' = FALSE

\* variant: frameCount is not reset
ResetStabilizerKeepsFrameCount ==
    /\ lastGesture' = "none"
    /\ gestureConfidence' = FZero
    /\ gestureHistory' = <<>>
    /\ UNCHANGED frameCount

\* dispose(), second part: reset the stabilizer fields
ResetStabilizer ==
    /\ lastGesture' = "none"
    /\ gestureConfidence' = FZero
    /\ frameCount' = 0
    /\ gestureHistory' = <<>>

\* dispose()
Dispose ==
    /\ DisposeSession
    /\ ResetStabilizer
    /\ lastOp' = [op |-> IF lastOp.op \in {"dispose", "disposeAgain"}
                         THEN "disposeAgain" ELSE "dispose",
                  outcome |-> "ok"]
    /\ session' = "Disposed"
    /\ everDisposed' = TRUE
    /\ emitted' = NoEmission
    /\ emitCount' = 0
    /\ callCount' = 0
    /\ firstEmit' = 0
    /\ onlyNone' = TRUE
    /\ UNCHANGED <<configVars, callbacks, inflight, scenarioVars, appVars>>

(***************************************************************************)
(* Error statistics and health of the recognizer.                          *)
(***************************************************************************)
getErrorStats ==
    [maxRetries        |-> maxRetries,
     consecutiveErrors |-> consecutiveErrors,
     retryCount        |-> retryCount]

\* isHealthy(): the session is Ready and the failures in a row are below the
\* configured maximum
isHealthy == ~NotInitialized /\ consecutiveErrors < maxRetries

\* processFrame() with error statistics: a call outside the Ready state
\* fails and counts as a failure
ProcessFrameTracked ==
    /\ IF NotInitialized
       THEN /\ consecutiveErrors < MaxErrors
            /\ consecutiveErrors' = consecutiveErrors + 1
            /\ lastOp' = [op |-> "processFrame", outcome |-> "throw"]
            /\ UNCHANGED inflight
       ELSE /\ hands \notin inflight
            /\ inflight' = inflight \cup {hands}
            /\ lastOp' = [op |-> "processFrame", outcome |-> "sent"]
            /\ UNCHANGED consecutiveErrors
    /\ UNCHANGED <<configVars, stabilizerVars, sessionVars, tracker, callbacks,
                   observedVars, session, everDisposed, scenarioVars,
                   maxRetries, retryCount, todoVars, managerVars, dbVars,
                   loopVars, settingsVars, heldVars, asyncDbVars>>

\* the tracker settles a send(): a rejection counts as a failure, a frame
\* that went through ends the run of failures
SendSettlesTracked(h, outcome) ==
    /\ h \in inflight
    /\ outcome = "rejected" => consecutiveErrors < MaxErrors
    /\ inflight' = inflight \ {h}
    /\ consecutiveErrors' = IF outcome = "rejected" THEN consecutiveErrors + 1
                            ELSE 0
    /\ lastOp' = [op |-> "send", outcome |-> outcome]
    /\ UNCHANGED <<configVars, stabilizerVars, sessionVars, tracker, callbacks,
                   observedVars, session, everDisposed, scenarioVars,
                   maxRetries, retryCount, todoVars, managerVars, dbVars,
                   loopVars, settingsVars, heldVars, asyncDbVars>>

(***************************************************************************)
(* The task list: todoReducer and the operations of TodoProvider.          *)
(* A task is [id, completed]; selectedTaskIndex counts from 0 and is -1    *)
(* when no task is selected.                                               *)
(***************************************************************************)
initialState ==
    [tasks |-> <<>>, selectedTaskIndex |-> -1, currentGesture |-> "null"]

\* state.tasks[index] of the source (indices from 0)
TaskAt(tasks, index) == tasks[index + 1]

MapTasks(tasks, id, completed) ==
    [i \in 1..Len(tasks) |->
        IF tasks[i].id = id THEN [tasks[i] EXCEPT !.completed = completed]
        ELSE tasks[i]]

FilterTasks(tasks, id) == SelectSeq(tasks, LAMBDA t : t.id # id)

\* variant: the selected index is not adjusted after the deletion
ReduceDeleteTaskKeepsIndex(state, id) ==
    [state EXCEPT !.tasks = FilterTasks(state.tasks, id)]

ReduceDeleteTask(state, id) ==
    LET filteredTasks == FilterTasks(state.tasks, id)
    IN  [state EXCEPT
            !.tasks = filteredTasks,
            !.selectedTaskIndex =
                IF Len(filteredTasks) = 0 THEN -1
                ELSE IF state.selectedTaskIndex >= Len(filteredTasks)
                     THEN Len(filteredTasks) - 1
                     ELSE state.selectedTaskIndex]

\* variant: up and down are exchanged
ReduceMoveSelectionSwapped(state, direction) ==
    IF Len(state.tasks) = 0 THEN state
    ELSE LET i == state.selectedTaskIndex
             n == Len(state.tasks)
         IN  [state EXCEPT !.selectedTaskIndex =
                 IF direction = "down"
                 THEN (IF i <= 0 THEN n - 1 ELSE i - 1)
                 ELSE (IF i >= n - 1 THEN 0 ELSE i + 1)]

ReduceMoveSelection(state, direction) ==
    IF Len(state.tasks) = 0 THEN state
    ELSE LET i == state.selectedTaskIndex
             n == Len(state.tasks)
         IN  [state EXCEPT !.selectedTaskIndex =
                 IF direction = "up"
                 THEN (IF i <= 0 THEN n - 1 ELSE i - 1)
                 ELSE (IF i >= n - 1 THEN 0 ELSE i + 1)]

todoReducer(state, action) ==
    CASE action.type = "SET_TASKS" ->
            [state EXCEPT
                !.tasks = action.payload,
                !.selectedTaskIndex = IF Len(action.payload) > 0 THEN 0 ELSE -1]
      [] action.type = "ADD_TASK" ->
            [state EXCEPT
                !.tasks = Append(state.tasks, action.payload),
                !.selectedTaskIndex = Len(state.tasks)]
      [] action.type = "UPDATE_TASK" ->
            [state EXCEPT !.tasks =
                MapTasks(state.tasks, action.payload.id, action.payload.completed)]
      [] action.type = "DELETE_TASK" -> ReduceDeleteTask(state, action.payload)
      [] action.type = "SET_SELECTED_TASK" ->
            [state EXCEPT !.selectedTaskIndex =
                Max(-1, Min(action.payload, Len(state.tasks) - 1))]
      [] action.type = "MOVE_SELECTION" ->
            ReduceMoveSelection(state, action.payload)
      [] action.type = "SET_CURRENT_GESTURE" ->
            [state EXCEPT !.currentGesture = action.payload]
      [] action.type = "TOGGLE_TASK_COMPLETION" ->
            [state EXCEPT !.tasks =
                [i \in 1..Len(state.tasks) |->
                    IF state.tasks[i].id = action.payload
                    THEN [state.tasks[i] EXCEPT !.completed = ~@]
                    ELSE state.tasks[i]]]
      [] action.type = "CLEAR_SELECTION" ->
            [state EXCEPT !.selectedTaskIndex = -1]
      [] OTHER -> state

\* addTask(text) up to the await of database.addTask: the call keeps the
\* state.tasks of the render it was made from; the database hands out the id
AddTaskCall(origin) ==
    /\ addCalls' = addCalls \cup
           {[id |-> nextId, tasks |-> todoState.tasks, origin |-> origin]}
    /\ nextId' = nextId + 1

\* addTask after the await: SET_TASKS with the kept list and the new task
AddTaskDispatch(call) ==
    todoReducer(todoState,
        [type |-> "SET_TASKS",
         payload |-> Append(call.tasks, [id |-> call.id, completed |-> FALSE])])

\* the ids tasks can have
ReducerIds == 1..(MaxTasks + 1)

ReducerTasks == {[id |-> i, completed |-> c] : i \in ReducerIds, c \in BOOLEAN}

\* the ids of a list are distinct
DistinctIds(tasks) ==
    \A i, j \in 1..Len(tasks) : i # j => tasks[i].id # tasks[j].id

\* task lists of up to MaxTasks tasks
RECURSIVE TaskLists(_)
TaskLists(n) ==
    IF n = 0 THEN {<<>>}
    ELSE TaskLists(n - 1) \cup
         {Append(l, t) : l \in {x \in TaskLists(n - 1) : Len(x) = n - 1},
                         t \in ReducerTasks}

\* dispatch(action)
Dispatch(action) ==
    /\ todoState' = todoReducer(todoState, action)
    /\ lastOp' = [op |-> "dispatch", outcome |-> action.type]
    /\ UNCHANGED <<recognizerVars, managerVars, addCalls, nextId, addedOk>>

DispatchSetTasks ==
    \E l \in {x \in TaskLists(MaxTasks) : DistinctIds(x)} :
        Dispatch([type |-> "SET_TASKS", payload |-> l])

\* ADD_TASK: the reducer gives the new task an id no task has
DispatchAddTask ==
    /\ Len(todoState.tasks) < MaxTasks
    /\ \E t \in ReducerTasks :
           /\ \A i \in 1..Len(todoState.tasks) : todoState.tasks[i].id # t.id
           /\ Dispatch([type |-> "ADD_TASK", payload |-> t])

DispatchUpdateTask ==
    \E i \in ReducerIds, c \in BOOLEAN :
        Dispatch([type |-> "UPDATE_TASK", payload |-> [id |-> i, completed |-> c]])

DispatchDeleteTask ==
    \E i \in ReducerIds : Dispatch([type |-> "DELETE_TASK", payload |-> i])

DispatchToggleTaskCompletion ==
    \E i \in ReducerIds :
        Dispatch([type |-> "TOGGLE_TASK_COMPLETION", payload |-> i])

DispatchSetSelectedTask ==
    \E n \in -2..(MaxTasks + 1) :
        Dispatch([type |-> "SET_SELECTED_TASK", payload |-> n])

DispatchMoveSelection ==
    \E d \in {"up", "down"} : Dispatch([type |-> "MOVE_SELECTION", payload |-> d])

DispatchClearSelection == Dispatch([type |-> "CLEAR_SELECTION"])

(***************************************************************************)
(* GestureManager: handleGestureDetected and the add-task dialog.          *)
(* The recognizer is created again by the effect whenever the callback     *)
(* changes, so an event is handled with the state of the latest render.    *)
(***************************************************************************)
\* no gesture command awaits the task list
NoCommand == [type |-> "none", id |-> 0, completed |-> FALSE]

\* no gesture event has been delivered
NothingIssued ==
    [gesture |-> "none", command |-> "none", id |-> 0, direction |-> "none"]

\* GESTURE_ACTIONS[gesture].type, "null" for the entry null
GESTURE_ACTIONS ==
    [thumbs_up   |-> "add",
     peace_sign  |-> "complete",
     fist        |-> "delete",
     point_up    |-> "navigate",
     two_fingers |-> "navigate",
     open_palm   |-> "cancel",
     none        |-> "null"]

Issue(gesture, command, id, direction) ==
    [gesture |-> gesture, command |-> command, id |-> id, direction |-> direction]

\* setCurrentGesture(gesture)
WithCurrentGesture(gesture) ==
    todoReducer(todoState, [type |-> "SET_CURRENT_GESTURE", payload |-> gesture])

\* todoState.selectedTaskIndex >= 0 and todoState.tasks[selectedTaskIndex]
\* is a task
HasSelectedTask ==
    /\ todoState.selectedTaskIndex >= 0
    /\ todoState.selectedTaskIndex < Len(todoState.tasks)

SelectedTask == TaskAt(todoState.tasks, todoState.selectedTaskIndex)

\* variant: point_up is not told apart from two_fingers
NavigateDirectionDownOnly(gesture) == "down"

\* gesture === "point_up" ? "up" : "down"
NavigateDirection(gesture) == IF gesture = "point_up" THEN "up" ELSE "down"

\* handleGestureDetected(gesture), up to its first await or to its end
handleGestureDetected(gesture) ==
    LET action == GESTURE_ACTIONS[gesture]
    IN  IF ~isEnabled \/ isProcessing
        THEN /\ issued' = Issue(gesture, "ignored", 0, "none")
             /\ UNCHANGED <<todoState, isProcessing, showAddTaskDialog,
                            newTaskText, feedbackMessage, pendingCommand>>
        ELSE IF action = "null"
        THEN /\ issued' = Issue(gesture, "none", 0, "none")
             /\ todoState' = WithCurrentGesture(gesture)
             /\ UNCHANGED <<isProcessing, showAddTaskDialog, newTaskText,
                            feedbackMessage, pendingCommand>>
        ELSE IF action = "add"
        THEN /\ issued' = Issue(gesture, "openAddTaskDialog", 0, "none")
             /\ todoState' = WithCurrentGesture(gesture)
             /\ showAddTaskDialog' = TRUE
             /\ feedbackMessage' = "adding"
             /\ UNCHANGED <<isProcessing, newTaskText, pendingCommand>>
        ELSE IF action = "complete" /\ HasSelectedTask
        THEN /\ issued' = Issue(gesture, "toggleTaskCompletion", SelectedTask.id, "none")
             /\ todoState' = WithCurrentGesture(gesture)
             /\ pendingCommand' = [type |-> "updateTask", id |-> SelectedTask.id,
                                   completed |-> ~SelectedTask.completed]
             /\ isProcessing' = TRUE
             /\ UNCHANGED <<showAddTaskDialog, newTaskText, feedbackMessage>>
        ELSE IF action = "delete" /\ HasSelectedTask
        THEN /\ issued' = Issue(gesture, "deleteTask", SelectedTask.id, "none")
             /\ todoState' = WithCurrentGesture(gesture)
             /\ pendingCommand' = [type |-> "deleteTask", id |-> SelectedTask.id,
                                   completed |-> FALSE]
             /\ isProcessing' = TRUE
             /\ UNCHANGED <<showAddTaskDialog, newTaskText, feedbackMessage>>
        ELSE IF action \in {"complete", "delete"}
        THEN /\ issued' = Issue(gesture, "none", 0, "none")
             /\ todoState' = WithCurrentGesture(gesture)
             /\ feedbackMessage' = IF todoState.selectedTaskIndex >= 0
                                   THEN feedbackMessage ELSE "selectTask"
             /\ UNCHANGED <<isProcessing, showAddTaskDialog, newTaskText,
                            pendingCommand>>
        ELSE IF action = "navigate" /\ Len(todoState.tasks) > 0
        THEN /\ issued' = Issue(gesture, "moveSelection", 0, NavigateDirection(gesture))
             /\ todoState' = todoReducer(WithCurrentGesture(gesture),
                                 [type |-> "MOVE_SELECTION",
                                  payload |-> NavigateDirection(gesture)])
             /\ feedbackMessage' = "moved"
             /\ UNCHANGED <<isProcessing, showAddTaskDialog, newTaskText,
                            pendingCommand>>
        ELSE IF action = "navigate"
        THEN /\ issued' = Issue(gesture, "none", 0, "none")
             /\ todoState' = WithCurrentGesture(gesture)
             /\ feedbackMessage' = "noTasks"
             /\ UNCHANGED <<isProcessing, showAddTaskDialog, newTaskText,
                            pendingCommand>>
        ELSE /\ issued' = Issue(gesture, "cancelAddTask", 0, "none")
             /\ todoState' = WithCurrentGesture(gesture)
             /\ showAddTaskDialog' = FALSE
             /\ newTaskText' = ""
             /\ feedbackMessage' = "cancelled"
             /\ UNCHANGED <<isProcessing, pendingCommand>>

\* the recognizer delivers a gesture event; a recognizer exists only while
\* the manager is enabled
GestureDetected(gesture) ==
    /\ isEnabled
    /\ handleGestureDetected(gesture)
    /\ lastOp' = [op |-> "gesture", outcome |-> "ok"]
    /\ UNCHANGED <<recognizerVars, addCalls, nextId, addedOk, isEnabled>>

\* the awaited toggleTaskCompletion / deleteTask of handleGestureDetected
\* settles: the database call succeeded and the action is dispatched, or it
\* threw; finally isProcessing is cleared
CommandSettles(outcome) ==
    /\ pendingCommand.type # "none"
    /\ IF outcome = "ok"
       THEN /\ todoState' =
                  IF pendingCommand.type = "updateTask"
                  THEN todoReducer(todoState,
                           [type |-> "UPDATE_TASK",
                            payload |-> [id |-> pendingCommand.id,
                                         completed |-> pendingCommand.completed]])
                  ELSE todoReducer(todoState,
                           [type |-> "DELETE_TASK", payload |-> pendingCommand.id])
            /\ feedbackMessage' = IF pendingCommand.type = "updateTask"
                                  THEN "toggled" ELSE "deleted"
       ELSE /\ feedbackMessage' = "failed"
            /\ UNCHANGED todoState
    /\ pendingCommand' = NoCommand
    /\ isProcessing' = FALSE
    /\ lastOp' = [op |-> "commandSettled", outcome |-> outcome]
    /\ issued' = NothingIssued
    /\ UNCHANGED <<recognizerVars, addCalls, nextId, addedOk, isEnabled,
                   showAddTaskDialog, newTaskText>>

\* text.trim() of the texts of NewTaskTexts
Trim(text) == IF text = " " THEN "" ELSE text

\* the texts typed into the dialog
NewTaskTexts == {"", " ", "milk"}

\* onChange of the dialog's input
TypeText(text) ==
    /\ isEnabled
    /\ showAddTaskDialog
    /\ text # newTaskText
    /\ newTaskText' = text
    /\ issued' = NothingIssued
    /\ lastOp' = [op |-> "typeText", outcome |-> "ok"]
    /\ UNCHANGED <<recognizerVars, todoVars, isEnabled, isProcessing,
                   showAddTaskDialog, feedbackMessage, pendingCommand>>

\* handleAddTask up to its await: addTask(newTaskText.trim())
HandleAddTask ==
    /\ isEnabled
    /\ showAddTaskDialog
    /\ Trim(newTaskText) # ""
    /\ nextId <= MaxTasks
    /\ AddTaskCall("dialog")
    /\ issued' = NothingIssued
    /\ lastOp' = [op |-> "addTask", outcome |-> "called"]
    /\ UNCHANGED <<recognizerVars, todoState, addedOk, isEnabled, isProcessing,
                   showAddTaskDialog, newTaskText, feedbackMessage,
                   pendingCommand>>

\* a component calls addTask of the context directly
AddTask ==
    /\ nextId <= MaxAddCalls
    /\ AddTaskCall("direct")
    /\ lastOp' = [op |-> "addTask", outcome |-> "called"]
    /\ UNCHANGED <<recognizerVars, todoState, addedOk, managerVars>>

\* the awaited database.addTask of one addTask call settles: SET_TASKS is
\* dispatched, or the error is rethrown; handleAddTask then closes the
\* dialog or reports the failure
AddTaskSettles(call, outcome) ==
    /\ call \in addCalls
    /\ addCalls' = addCalls \ {call}
    /\ IF outcome = "ok"
       THEN /\ todoState' = AddTaskDispatch(call)
            /\ addedOk' = addedOk \cup {call.id}
       ELSE UNCHANGED <<todoState, addedOk>>
    /\ IF call.origin = "dialog"
       THEN IF outcome = "ok"
            THEN /\ feedbackMessage' = "added"
                 /\ newTaskText' = ""
                 /\ showAddTaskDialog' = FALSE
            ELSE /\ feedbackMessage' = "addFailed"
                 /\ UNCHANGED <<newTaskText, showAddTaskDialog>>
       ELSE UNCHANGED <<feedbackMessage, newTaskText, showAddTaskDialog>>
    /\ issued' = NothingIssued
    /\ lastOp' = [op |-> "addTaskSettled", outcome |-> outcome]
    /\ UNCHANGED <<recognizerVars, nextId, isEnabled, isProcessing,
                   pendingCommand>>

\* handleCancelAddTask
HandleCancelAddTask ==
    /\ isEnabled
    /\ showAddTaskDialog
    /\ showAddTaskDialog' = FALSE
    /\ newTaskText' = ""
    /\ feedbackMessage' = "addCancelled"
    /\ issued' = NothingIssued
    /\ lastOp' = [op |-> "cancelAddTask", outcome |-> "ok"]
    /\ UNCHANGED <<recognizerVars, todoVars, isEnabled, isProcessing,
                   pendingCommand>>

\* setSelectedTask(index) of the context
SetSelectedTask(index) ==
    /\ todoState' = todoReducer(todoState,
                        [type |-> "SET_SELECTED_TASK", payload |-> index])
    /\ todoState' # todoState
    /\ issued' = NothingIssued
    /\ lastOp' = [op |-> "setSelectedTask", outcome |-> "ok"]
    /\ UNCHANGED <<recognizerVars, addCalls, nextId, addedOk, isEnabled,
                   isProcessing, showAddTaskDialog, newTaskText,
                   feedbackMessage, pendingCommand>>

\* moveSelection(direction) of the context
MoveSelection(direction) ==
    /\ todoState' = todoReducer(todoState,
                        [type |-> "MOVE_SELECTION", payload |-> direction])
    /\ todoState' # todoState
    /\ issued' = NothingIssued
    /\ lastOp' = [op |-> "moveSelection", outcome |-> direction]
    /\ UNCHANGED <<recognizerVars, addCalls, nextId, addedOk, isEnabled,
                   isProcessing, showAddTaskDialog, newTaskText,
                   feedbackMessage, pendingCommand>>

\* the parent changes the isEnabled prop
SetEnabled ==
    /\ isEnabled' = ~isEnabled
    /\ issued' = NothingIssued
    /\ lastOp' = [op |-> "setEnabled", outcome |-> "ok"]
    /\ UNCHANGED <<recognizerVars, todoVars, isProcessing, showAddTaskDialog,
                   newTaskText, feedbackMessage, pendingCommand>>

(***************************************************************************)
(* GestureManager: the effect that creates the recognizer and drives it    *)
(* with processFrames, handleGestureError and retryGestureRecognition.     *)
(***************************************************************************)
\* maxRetries: 3 passed to the recognizer
DefaultMaxRetries == 3

\* config.historySize ?? 10
DefaultHistorySize == 10

Recognizers == 1..MaxRecognizers

\* gestureRecognizerRef.current = null
NoRecognizer == 0

\* const maxRetries = 3 of GestureManager
ManagerMaxRetries == 3

\* the state the effect and the loops do not touch
nonLoopVars ==
    <<configVars, stabilizerVars, sessionVars, trackerVars, observedVars,
      session, everDisposed, scenarioVars, errorVars, todoVars, dbVars,
      settingsVars, heldVars, asyncDbVars, isProcessing, showAddTaskDialog, newTaskText,
      feedbackMessage, pendingCommand, issued>>

\* a recognizer and its loop that nothing refers to any more
Released(k) ==
    /\ recognizerState[k] \in {"unused", "disposed", "failed"}
    /\ loopState[k] \in {"none", "stopped"}
    /\ \A j \in Recognizers : ~(loopState[j] = "inFlight" /\ loopTarget[j] = k)

\* the recognizer the next new GestureRecognizer(...) creates
NewRecognizer ==
    CHOOSE k \in Recognizers :
        Released(k) /\ \A j \in Recognizers : Released(j) => k <= j

\* gestureRecognizerRef.current.dispose(); gestureRecognizerRef.current = null
\* (the states after it, given the states before)
DisposedRef(states) ==
    IF gestureRecognizerRef # NoRecognizer
    THEN [states EXCEPT ![gestureRecognizerRef] = "disposed"]
    ELSE states

\* the dependencies of the effect changed (isEnabled, a setting, one of the
\* callbacks, fallbackMode): the cleanup of the last run, if it returned
\* one, then the effect with isEnabled = en
EffectRuns(en) ==
    LET cleaned == IF effectActive THEN DisposedRef(recognizerState)
                   ELSE recognizerState
        ref     == IF effectActive THEN NoRecognizer ELSE gestureRecognizerRef
    IN  /\ isEnabled' = en
        /\ IF ~en \/ fallbackMode
           THEN /\ recognizerState' =
                      IF ref # NoRecognizer
                      THEN [cleaned EXCEPT ![ref] = "disposed"] ELSE cleaned
                /\ gestureRecognizerRef' = NoRecognizer
                /\ effectActive' = FALSE
                /\ UNCHANGED <<recErrors, recRetry, loopState>>
           ELSE /\ \E k \in Recognizers : Released(k)
                /\ recognizerState' = [cleaned EXCEPT ![NewRecognizer] = "initializing"]
                /\ recErrors' = [recErrors EXCEPT ![NewRecognizer] = 0]
                /\ recRetry' = [recRetry EXCEPT ![NewRecognizer] = managerRetryCount]
                /\ loopState' = [loopState EXCEPT ![NewRecognizer] = "none"]
                /\ gestureRecognizerRef' = ref
                /\ effectActive' = TRUE
        /\ lastOp' = [op |-> "effect", outcome |-> IF en THEN "enabled" ELSE "disabled"]
        /\ UNCHANGED <<nonLoopVars, loopTarget, fallbackMode, managerRetryCount>>

\* processFrames() of the loop started for recognizer k: the call is made on
\* gestureRecognizerRef.current unless it is null or not isHealthy(); isEnabled and fallbackMode are those of the
\* render the loop was created in, true and false
ProcessFramesStep(k, states, ref) ==
    IF ref # NoRecognizer /\ states[ref] = "ready"
          /\ recErrors[ref] < DefaultMaxRetries
    THEN /\ loopState' = [loopState EXCEPT ![k] = "inFlight"]
         /\ loopTarget' = [loopTarget EXCEPT ![k] = ref]
    ELSE /\ loopState' = [loopState EXCEPT ![k] = "stopped"]
         /\ UNCHANGED loopTarget

\* handleGestureError as created in a render with retryCount = retries
ShouldFallback(errorKind, retries) ==
    IF errorKind = "MediaPipeInitializationError" THEN TRUE
    ELSE retries >= ManagerMaxRetries

\* await recognizer.initialize(videoElement) of the effect run that created
\* recognizer k settles: the ref is set and processFrames() is called, or
\* handleGestureError gets a MediaPipeInitializationError
InitializeSettles(k, outcome) ==
    /\ recognizerState[k] = "initializing"
    /\ IF outcome = "ok"
       THEN /\ recognizerState' = [recognizerState EXCEPT ![k] = "ready"]
            /\ gestureRecognizerRef' = k
            /\ ProcessFramesStep(k, recognizerState', k)
            /\ UNCHANGED fallbackMode
       ELSE /\ recognizerState' = [recognizerState EXCEPT ![k] = "failed"]
            /\ fallbackMode' =
                   ShouldFallback("MediaPipeInitializationError", managerRetryCount)
            /\ UNCHANGED <<gestureRecognizerRef, loopState, loopTarget>>
    /\ lastOp' = [op |-> "initializeSettles", outcome |-> outcome]
    /\ UNCHANGED <<nonLoopVars, isEnabled, recErrors, recRetry,
                   managerRetryCount, effectActive>>

\* the animation frame requested by the loop of recognizer k arrives
LoopTick(k) ==
    /\ loopState[k] = "scheduled"
    /\ ProcessFramesStep(k, recognizerState, gestureRecognizerRef)
    /\ lastOp' = [op |-> "loopTick", outcome |-> loopState'[k]]
    /\ UNCHANGED <<nonLoopVars, isEnabled, recognizerState, recErrors, recRetry,
                   gestureRecognizerRef, fallbackMode, managerRetryCount,
                   effectActive>>

\* the processFrame call of the loop of recognizer k settles.  rejected: the
\* recognizer counts the failure and reports a FrameProcessingError to the
\* handleGestureError it was created with; either way the loop requests the
\* next animation frame
ProcessFrameSettles(k, outcome) ==
    /\ loopState[k] = "inFlight"
    /\ loopState' = [loopState EXCEPT ![k] = "scheduled"]
    /\ loopTarget' = [loopTarget EXCEPT ![k] = NoRecognizer]
    /\ IF outcome = "rejected"
       THEN /\ recErrors' = [recErrors EXCEPT ![loopTarget[k]] =
                                Min(@ + 1, DefaultMaxRetries)]
            /\ fallbackMode' =
                   (fallbackMode \/
                    ShouldFallback("FrameProcessingError", recRetry[loopTarget[k]]))
            /\ lastOp' = [op |-> "frameError", outcome |-> "reported"]
       ELSE /\ recErrors' = [recErrors EXCEPT ![loopTarget[k]] = 0]
            /\ lastOp' = [op |-> "frameDone", outcome |-> "ok"]
            /\ UNCHANGED fallbackMode
    /\ UNCHANGED <<nonLoopVars, isEnabled, recognizerState, recRetry,
                   gestureRecognizerRef, managerRetryCount, effectActive>>

\* retryGestureRecognition(), the button shown in fallback mode
RetryGestureRecognition ==
    /\ fallbackMode
    /\ managerRetryCount < ManagerMaxRetries
    /\ managerRetryCount' = managerRetryCount + 1
    /\ fallbackMode' = FALSE
    /\ recognizerState' = DisposedRef(recognizerState)
    /\ gestureRecognizerRef' = NoRecognizer
    /\ lastOp' = [op |-> "retry", outcome |-> "ok"]
    /\ UNCHANGED <<nonLoopVars, isEnabled, recErrors, recRetry, loopState,
                   loopTarget, effectActive>>

(***************************************************************************)
(* The databases and DatabaseFactory.  The data of a database is           *)
(* [tasks |-> set of task ids, settings |-> set of setting keys].          *)
(***************************************************************************)
\* the state that does not belong to the databases
nonDbVars ==
    <<configVars, stabilizerVars, sessionVars, trackerVars, observedVars,
      session, everDisposed, scenarioVars, errorVars, todoVars, managerVars,
      loopVars, settingsVars, heldVars, asyncDbVars>>

SettingKeys == {"theme", "sensitivity"}

TaskKeys == 1..MaxDbTasks

NoData == [tasks |-> {}, settings |-> {}]

\* fallbackData = null
NoBackup == [present |-> FALSE, tasks |-> {}, settings |-> {}]

Backup(data) ==
    [present |-> TRUE, tasks |-> data.tasks, settings |-> data.settings]

DataOf(backup) == [tasks |-> backup.tasks, settings |-> backup.settings]

\* what the database behind DatabaseFactory.instance holds
ActiveData ==
    IF dbInstance = "indexedDB" THEN stored
    ELSE IF dbInstance = "inMemory" THEN memory
    ELSE NoData

\* instance.exportData() when it does not throw: all tasks, and the settings
\* whose getSetting did not fail (every setting for the in-memory database)
ExportData(unreadable) ==
    [tasks    |-> ActiveData.tasks,
     settings |-> ActiveData.settings \
                     (IF dbInstance = "indexedDB" THEN unreadable ELSE {})]

\* variant: a backup that exists is not replaced
BackedUpKeepsOld(exportOk, unreadable) ==
    IF dbInstance # "null" /\ exportOk /\ ~fallbackData.present
    THEN Backup(ExportData(unreadable))
    ELSE fallbackData

\* fallbackData after backupData(): the export of the instance, or what it
\* was when there is no instance or exportData throws
BackedUp(exportOk, unreadable) ==
    IF dbInstance # "null" /\ exportOk
    THEN Backup(ExportData(unreadable))
    ELSE fallbackData

\* the outcomes exportData can have for the instance: the in-memory
\* database created by the factory is initialized and cannot fail
ExportPossible(exportOk, unreadable) ==
    dbInstance # "indexedDB" => (exportOk /\ unreadable = {})

\* DatabaseFactory.reset(); also the values of the static initializers
FactoryReset ==
    /\ dbInstance = "null"
    /\ fallbackData = NoBackup
    /\ isUsingFallback = FALSE
    /\ stored = NoData
    /\ memory = NoData

\* createDatabase() when there is no instance.  outcome "opened": IndexedDB
\* initializes and a restore of the fallback data, if any is due, succeeds;
\* "restoreFails": the restore throws; "unavailable": initialize throws and
\* the in-memory database is used
CreateDatabase(outcome) ==
    /\ dbInstance = "null"
    /\ \/ /\ outcome = "opened"
          /\ dbInstance' = "indexedDB"
          /\ IF fallbackData.present /\ isUsingFallback
             THEN /\ stored' = DataOf(fallbackData)
                  /\ fallbackData' = NoBackup
                  /\ isUsingFallback' = FALSE
             ELSE UNCHANGED <<stored, fallbackData, isUsingFallback>>
          /\ UNCHANGED memory
       \/ /\ outcome = "restoreFails"
          /\ fallbackData.present /\ isUsingFallback
          /\ dbInstance' = "indexedDB"
          /\ UNCHANGED <<stored, fallbackData, isUsingFallback, memory>>
       \/ /\ outcome = "unavailable"
          /\ dbInstance' = "inMemory"
          /\ memory' = IF fallbackData.present THEN DataOf(fallbackData) ELSE NoData
          /\ isUsingFallback' = TRUE
          /\ UNCHANGED <<stored, fallbackData>>
    /\ lastOp' = [op |-> "createDatabase", outcome |-> outcome]
    /\ UNCHANGED nonDbVars

\* the data of the instance after an operation
WithActiveData(data) ==
    /\ dbInstance # "null"
    /\ IF dbInstance = "indexedDB"
       THEN stored' = data /\ UNCHANGED memory
       ELSE memory' = data /\ UNCHANGED stored

\* addTask on the instance, with the id it generates
DbAddTask(id) ==
    /\ id \notin ActiveData.tasks
    /\ WithActiveData([ActiveData EXCEPT !.tasks = @ \cup {id}])
    /\ lastOp' = [op |-> "dbAddTask", outcome |-> "ok"]
    /\ UNCHANGED <<nonDbVars, dbInstance, fallbackData, isUsingFallback>>

\* deleteTask on the instance
DbDeleteTask(id) ==
    /\ id \in ActiveData.tasks
    /\ WithActiveData([ActiveData EXCEPT !.tasks = @ \ {id}])
    /\ lastOp' = [op |-> "dbDeleteTask", outcome |-> "ok"]
    /\ UNCHANGED <<nonDbVars, dbInstance, fallbackData, isUsingFallback>>

\* setSetting on the instance
DbSetSetting(key) ==
    /\ key \notin ActiveData.settings
    /\ WithActiveData([ActiveData EXCEPT !.settings = @ \cup {key}])
    /\ lastOp' = [op |-> "dbSetSetting", outcome |-> "ok"]
    /\ UNCHANGED <<nonDbVars, dbInstance, fallbackData, isUsingFallback>>

\* backupData()
BackupData(exportOk, unreadable) ==
    /\ dbInstance # "null"
    /\ ExportPossible(exportOk, unreadable)
    /\ fallbackData' = BackedUp(exportOk, unreadable)
    /\ lastOp' = [op |-> "backupData",
                  outcome |-> IF exportOk THEN "exported" ELSE "notExported"]
    /\ UNCHANGED <<nonDbVars, dbInstance, isUsingFallback, stored, memory>>

\* switchToFallback(): backupData(), then a new in-memory database that
\* imports fallbackData when there is one
SwitchToFallback(exportOk, unreadable) ==
    /\ ExportPossible(exportOk, unreadable)
    /\ fallbackData' = BackedUp(exportOk, unreadable)
    /\ dbInstance' = "inMemory"
    /\ isUsingFallback' = TRUE
    /\ memory' = IF fallbackData'.present THEN DataOf(fallbackData') ELSE NoData
    /\ lastOp' = [op |-> "switchToFallback",
                  outcome |-> IF dbInstance # "null" /\ exportOk
                              THEN "exported" ELSE "notExported",
                  unreadable |-> unreadable]
    /\ UNCHANGED <<nonDbVars, stored>>

\* attemptRecovery() while the fallback is in use.  outcome "recovered":
\* IndexedDB initializes and imports; "fails": initialize or importData
\* throws after the backup was taken
AttemptRecovery(outcome) ==
    /\ isUsingFallback
    /\ fallbackData' = BackedUp(TRUE, {})
    /\ ExportPossible(TRUE, {})
    /\ IF outcome = "recovered"
       THEN /\ stored' = IF fallbackData'.present THEN DataOf(fallbackData')
                         ELSE stored
            /\ dbInstance' = "indexedDB"
            /\ isUsingFallback' = FALSE
       ELSE UNCHANGED <<stored, dbInstance, isUsingFallback>>
    /\ lastOp' = [op |-> "attemptRecovery", outcome |-> outcome]
    /\ UNCHANGED <<nonDbVars, memory>>

\* DatabaseFactory.reset()
Reset ==
    /\ dbInstance' = "null"
    /\ fallbackData' = NoBackup
    /\ isUsingFallback' = FALSE
    /\ lastOp' = [op |-> "reset", outcome |-> "ok"]
    /\ UNCHANGED <<nonDbVars, stored, memory>>

(***************************************************************************)
(* DatabaseFactory call by call: every await of createDatabase,            *)
(* switchToFallback and attemptRecovery ends a step, and the calls in      *)
(* flight interleave at these points.  Nothing but the factory writes to   *)
(* the databases here.                                                     *)
(***************************************************************************)
FactoryCallIds == 1..MaxFactoryCalls

\* a call that is not running
NoCall == [op |-> "none", pc |-> "idle", from |-> "null", arg |-> NoBackup]

\* no factory call in flight
NoFactoryCalls == factoryCalls = [c \in FactoryCallIds |-> NoCall]

\* the state outside the factory and its calls
nonFactoryVars ==
    <<configVars, stabilizerVars, sessionVars, trackerVars, observedVars,
      session, everDisposed, scenarioVars, errorVars, todoVars, managerVars,
      loopVars, settingsVars, heldVars, dbIsInitialized, initializationPromise,
      attempts, initCalls>>

\* call c is at the await named pc
Awaits(c, pc, from, arg) ==
    factoryCalls' = [factoryCalls EXCEPT ![c] =
                        [op |-> @.op, pc |-> pc, from |-> from, arg |-> arg]]

\* call c returns
Returns(c) == factoryCalls' = [factoryCalls EXCEPT ![c] = NoCall]

\* a call of createDatabase(), switchToFallback() or attemptRecovery(), up to
\* its first await: createDatabase returns an existing instance,
\* attemptRecovery returns when the fallback is not in use
FactoryCalled(c, op) ==
    /\ factoryCalls[c] = NoCall
    /\ CASE op = "createDatabase" ->
              IF dbInstance # "null"
              THEN UNCHANGED factoryCalls
              ELSE factoryCalls' = [factoryCalls EXCEPT ![c] =
                       [op |-> op, pc |-> "initIndexedDB", from |-> "null",
                        arg |-> NoBackup]]
         [] op = "switchToFallback" ->
              factoryCalls' = [factoryCalls EXCEPT ![c] =
                  [op |-> op, pc |-> "backup", from |-> dbInstance,
                   arg |-> NoBackup]]
         [] op = "attemptRecovery" ->
              IF ~isUsingFallback
              THEN UNCHANGED factoryCalls
              ELSE factoryCalls' = [factoryCalls EXCEPT ![c] =
                       [op |-> op, pc |-> "backup", from |-> dbInstance,
                        arg |-> NoBackup]]
    /\ lastOp' = [op |-> op, outcome |-> "called"]
    /\ UNCHANGED <<nonFactoryVars, dbVars>>

\* createDatabase after await indexedDB.initialize(): the restore of the
\* fallback data is awaited when it is due, else the instance is set; when
\* initialize threw, the in-memory database is initialized
CreateInitSettles(c, ok) ==
    /\ factoryCalls[c].op = "createDatabase"
    /\ factoryCalls[c].pc = "initIndexedDB"
    /\ IF ok
       THEN IF fallbackData.present /\ isUsingFallback
            THEN /\ Awaits(c, "restore", "null", fallbackData)
                 /\ UNCHANGED dbInstance
            ELSE /\ dbInstance' = "indexedDB"
                 /\ Returns(c)
       ELSE /\ Awaits(c, "initMemory", "null", NoBackup)
            /\ UNCHANGED dbInstance
    /\ lastOp' = [op |-> "createDatabase",
                  outcome |-> IF ok THEN "initialized" ELSE "unavailable"]
    /\ UNCHANGED <<nonFactoryVars, fallbackData, isUsingFallback, stored, memory>>

\* createDatabase after await indexedDB.importData(this.fallbackData)
CreateRestoreSettles(c, ok) ==
    /\ factoryCalls[c].op = "createDatabase"
    /\ factoryCalls[c].pc = "restore"
    /\ IF ok
       THEN /\ stored' = DataOf(factoryCalls[c].arg)
            /\ fallbackData' = NoBackup
            /\ isUsingFallback' = FALSE
       ELSE UNCHANGED <<stored, fallbackData, isUsingFallback>>
    /\ dbInstance' = "indexedDB"
    /\ Returns(c)
    /\ lastOp' = [op |-> "createDatabase",
                  outcome |-> IF ok THEN "opened" ELSE "restoreFails"]
    /\ UNCHANGED <<nonFactoryVars, memory>>

\* this.instance = inMemoryDB of call c, holding the given data;
\* createDatabase also sets isUsingFallback
InstallsMemory(c, data) ==
    /\ dbInstance' = "inMemory"
    /\ memory' = data
    /\ isUsingFallback' =
           IF factoryCalls[c].op = "createDatabase" THEN TRUE ELSE isUsingFallback
    /\ Returns(c)

\* createDatabase or switchToFallback after await inMemoryDB.initialize()
MemoryInitSettles(c) ==
    /\ factoryCalls[c].op \in {"createDatabase", "switchToFallback"}
    /\ factoryCalls[c].pc = "initMemory"
    /\ IF fallbackData.present
       THEN /\ Awaits(c, "restoreMemory", "null", fallbackData)
            /\ UNCHANGED <<dbInstance, memory, isUsingFallback>>
       ELSE InstallsMemory(c, NoData)
    /\ lastOp' = [op |-> factoryCalls[c].op, outcome |-> "memoryInitialized"]
    /\ UNCHANGED <<nonFactoryVars, fallbackData, stored>>

\* createDatabase or switchToFallback after await
\* inMemoryDB.importData(this.fallbackData)
MemoryRestoreSettles(c) ==
    /\ factoryCalls[c].op \in {"createDatabase", "switchToFallback"}
    /\ factoryCalls[c].pc = "restoreMemory"
    /\ InstallsMemory(c, DataOf(factoryCalls[c].arg))
    /\ lastOp' = [op |-> factoryCalls[c].op, outcome |-> "memoryRestored"]
    /\ UNCHANGED <<nonFactoryVars, fallbackData, stored>>

\* switchToFallback or attemptRecovery after await this.backupData():
\* fallbackData is the export of the instance the call found, unless there
\* was none or exportData threw; switchToFallback then clears the instance,
\* sets isUsingFallback and initializes an in-memory database,
\* attemptRecovery initializes an IndexedDB database
BackupSettles(c, exportOk) ==
    /\ factoryCalls[c].op \in {"switchToFallback", "attemptRecovery"}
    /\ factoryCalls[c].pc = "backup"
    /\ factoryCalls[c].from # "indexedDB" => exportOk
    /\ fallbackData' =
           IF factoryCalls[c].from # "null" /\ exportOk
           THEN Backup(IF factoryCalls[c].from = "indexedDB" THEN stored ELSE memory)
           ELSE fallbackData
    /\ IF factoryCalls[c].op = "switchToFallback"
       THEN /\ dbInstance' = "null"
            /\ isUsingFallback' = TRUE
            /\ Awaits(c, "initMemory", "null", NoBackup)
       ELSE /\ Awaits(c, "initIndexedDB", "null", NoBackup)
            /\ UNCHANGED <<dbInstance, isUsingFallback>>
    /\ lastOp' = [op |-> factoryCalls[c].op,
                  outcome |-> IF factoryCalls[c].from # "null" /\ exportOk
                              THEN "exported" ELSE "notExported"]
    /\ UNCHANGED <<nonFactoryVars, stored, memory>>

\* attemptRecovery after await indexedDB.initialize()
RecoveryInitSettles(c, ok) ==
    /\ factoryCalls[c].op = "attemptRecovery"
    /\ factoryCalls[c].pc = "initIndexedDB"
    /\ IF ok
       THEN IF fallbackData.present
            THEN /\ Awaits(c, "restore", "null", fallbackData)
                 /\ UNCHANGED <<dbInstance, isUsingFallback>>
            ELSE /\ dbInstance' = "indexedDB"
                 /\ isUsingFallback' = FALSE
                 /\ Returns(c)
       ELSE /\ Returns(c)
            /\ UNCHANGED <<dbInstance, isUsingFallback>>
    /\ lastOp' = [op |-> "attemptRecovery",
                  outcome |-> IF ok THEN "initialized" ELSE "fails"]
    /\ UNCHANGED <<nonFactoryVars, fallbackData, stored, memory>>

\* attemptRecovery after await indexedDB.importData(this.fallbackData)
RecoveryRestoreSettles(c, ok) ==
    /\ factoryCalls[c].op = "attemptRecovery"
    /\ factoryCalls[c].pc = "restore"
    /\ IF ok
       THEN /\ stored' = DataOf(factoryCalls[c].arg)
            /\ dbInstance' = "indexedDB"
            /\ isUsingFallback' = FALSE
       ELSE UNCHANGED <<stored, dbInstance, isUsingFallback>>
    /\ Returns(c)
    /\ lastOp' = [op |-> "attemptRecovery",
                  outcome |-> IF ok THEN "recovered" ELSE "fails"]
    /\ UNCHANGED <<nonFactoryVars, fallbackData, memory>>

(***************************************************************************)
(* IndexedDBTodoDatabase.initialize() of one database object.  A run of    *)
(* performInitialization is an attempt; initializationPromise and the      *)
(* promise a call returns are the number of the attempt they settle with.  *)
(***************************************************************************)
InitCallIds == 1..MaxInitCalls

AttemptIds == 1..MaxInitCalls

\* initializationPromise = null
NoPromise == 0

\* a call of initialize() that has not been made
NotCalled == -1

\* a call that found isInitialized and returned
ReturnedAtOnce == 0

\* the state outside the database object
nonInitVars ==
    <<configVars, stabilizerVars, sessionVars, trackerVars, observedVars,
      session, everDisposed, scenarioVars, errorVars, todoVars, managerVars,
      dbVars, loopVars, settingsVars, heldVars, factoryCalls>>

\* new IndexedDBTodoDatabase(), and no factory call
FactoryIdle ==
    /\ NoFactoryCalls
    /\ dbIsInitialized = FALSE
    /\ initializationPromise = NoPromise
    /\ attempts = [n \in AttemptIds |-> "unused"]
    /\ initCalls = [c \in InitCallIds |-> NotCalled]

\* the attempt the next run of performInitialization is
NextAttempt == CHOOSE n \in AttemptIds :
                   attempts[n] = "unused" /\ \A k \in 1..(n - 1) : attempts[k] # "unused"

\* performInitialization(): when IndexedDB is not available the function
\* throws before its first await, its catch clears initializationPromise and
\* the promise it returns is rejected; else the promise is the one of the
\* open request, which settles outside the try block
performInitialization(available) ==
    attempts' = [attempts EXCEPT ![NextAttempt] =
                    IF available THEN "pending" ELSE "rejected"]

\* the c-th call of initialize(): it returns when isInitialized, returns
\* the stored promise when there is one, and else stores and returns the
\* promise of performInitialization(); the assignment follows the call, so
\* it overwrites what the catch block of performInitialization stored
initialize(c, available) ==
    /\ initCalls[c] = NotCalled
    /\ \A d \in 1..(c - 1) : initCalls[d] # NotCalled
    /\ IF dbIsInitialized
       THEN /\ initCalls' = [initCalls EXCEPT ![c] = ReturnedAtOnce]
            /\ lastOp' = [op |-> "initialize", outcome |-> "returned"]
            /\ UNCHANGED <<attempts, initializationPromise>>
       ELSE IF initializationPromise # NoPromise
       THEN /\ initCalls' = [initCalls EXCEPT ![c] = initializationPromise]
            /\ lastOp' = [op |-> "initialize", outcome |-> "joined"]
            /\ UNCHANGED <<attempts, initializationPromise>>
       ELSE /\ performInitialization(available)
            /\ initializationPromise' = NextAttempt
            /\ initCalls' = [initCalls EXCEPT ![c] = NextAttempt]
            /\ lastOp' = [op |-> "initialize", outcome |-> "opened"]
    /\ UNCHANGED <<nonInitVars, dbIsInitialized>>

\* the open request of attempt n fires onsuccess, onerror or onblocked
OpenSettles(n, event) ==
    /\ attempts[n] = "pending"
    /\ attempts' = [attempts EXCEPT ![n] =
                       IF event = "success" THEN "fulfilled" ELSE "rejected"]
    /\ dbIsInitialized' = IF event = "success" THEN TRUE ELSE dbIsInitialized
    /\ lastOp' = [op |-> "open", outcome |-> event]
    /\ UNCHANGED <<nonInitVars, initializationPromise, initCalls>>

\* db.onclose: the connection is closed unexpectedly
ConnectionCloses ==
    /\ dbIsInitialized
    /\ dbIsInitialized' = FALSE
    /\ lastOp' = [op |-> "close", outcome |-> "ok"]
    /\ UNCHANGED <<nonInitVars, initializationPromise, attempts, initCalls>>

(***************************************************************************)
(* Inputs: landmark lists and tracker results.                             *)
(***************************************************************************)
\* a list of n landmarks: the wrist, the MCP joints of the four fingers as
\* in createMockLandmarks of the recognizer tests, the given thumb and index
\* MCP and the given tips; every other landmark at the centre
LandmarkList(n, thumbMcp, thumbTip, indexMcp, indexTip, midTip, ringTip, pinkyTip) ==
    [present |-> TRUE,
     len     |-> n,
     pt      |-> [i \in 0..(n - 1) |->
                    CASE i = 0  -> <<50, 70>>
                      [] i = 2  -> thumbMcp
                      [] i = 4  -> thumbTip
                      [] i = 5  -> indexMcp
                      [] i = 8  -> indexTip
                      [] i = 9  -> <<50, 60>>
                      [] i = 12 -> midTip
                      [] i = 13 -> <<55, 60>>
                      [] i = 16 -> ringTip
                      [] i = 17 -> <<60, 60>>
                      [] i = 20 -> pinkyTip
                      [] OTHER  -> <<50, 50>>]]

ThumbMcps == {<<40, 60>>, <<50, 5>>}

ThumbTips == {<<45, 65>>, <<30, 40>>, <<20, 60>>, <<30, 55>>, <<30, 54>>, <<0, 0>>}

IndexMcps == {<<45, 60>>, <<45, 68>>}

IndexTips == {<<45, 65>>, <<45, 30>>, <<40, 30>>, <<45, 58>>}

MiddleTips == {<<50, 65>>, <<50, 30>>, <<60, 30>>, <<46, 31>>, <<50, 58>>}

RingTips == {<<55, 65>>, <<55, 30>>, <<55, 58>>}

PinkyTips == {<<60, 65>>, <<60, 30>>, <<60, 58>>}

\* lengths of the lists that are not hand poses of exactly 21 landmarks
OtherLengths == {0, 10, 20, 25}

LandmarkInputs ==
    {NoLandmarks} \cup
    {LandmarkList(n, <<40, 60>>, <<30, 40>>, <<45, 60>>, <<45, 65>>, <<50, 65>>,
                  <<55, 65>>, <<60, 65>>) : n \in OtherLengths} \cup
    {LandmarkList(LandmarkCount, tm, tt, im, it, mt, rt, pk) :
        tm \in ThumbMcps, tt \in ThumbTips, im \in IndexMcps,
        it \in IndexTips, mt \in MiddleTips, rt \in RingTips, pk \in PinkyTips}

Sensitivities == {7, 10, 15}

\* the poses of the recognizer tests: thumbs up, fist, and a short list
ThumbsUpPose ==
    LandmarkList(21, <<40, 60>>, <<30, 40>>, <<45, 60>>, <<45, 65>>, <<50, 65>>,
                 <<55, 65>>, <<60, 65>>)

FistPose ==
    LandmarkList(21, <<40, 60>>, <<45, 65>>, <<45, 60>>, <<45, 65>>, <<50, 65>>,
                 <<55, 65>>, <<60, 65>>)

ShortList ==
    LandmarkList(10, <<40, 60>>, <<45, 65>>, <<45, 60>>, <<45, 65>>, <<50, 65>>,
                 <<55, 65>>, <<60, 65>>)

SampleResults ==
    {NoHandsField, HandsResult(<<>>), HandsResult(<<ThumbsUpPose>>),
     HandsResult(<<FistPose>>), HandsResult(<<ShortList>>)}

\* labels fed directly to the stabilizer
StreamLabels == {"thumbs_up", "fist", "none"}

Thresholds == {5, 8, 10}

\* configurations of the session scenario:
\* <<confidenceThreshold in tenths, debounceFrames, historySize>>
SessionConfigs == {<<5, 1, 2>>, <<8, 2, 1>>, <<10, 2, 2>>}

(***************************************************************************)
(* AppContext: the gesture settings, and the recognizer GestureManager     *)
(* constructs from them.                                                   *)
(***************************************************************************)
initialAppState ==
    [gestureSettings |->
        [sensitivity |-> 7, debounceTime |-> 300, confidenceThreshold |-> 8]]

\* values of debounceTime a caller of updateGestureSettings passes
DebounceTimes == {0, 20, 33, 100, 300, 330, 362, 363, 500}

\* a Partial<gestureSettings>: the fields that are not undefined
SettingsPayloads ==
    {[debounceTime |-> t] : t \in DebounceTimes} \cup
    {[sensitivity |-> v] : v \in Sensitivities} \cup
    {[confidenceThreshold |-> t] : t \in Thresholds}

\* {...state.gestureSettings, ...action.payload}
ReduceGestureSettings(settings, payload) ==
    [f \in DOMAIN settings |->
        IF f \in DOMAIN payload THEN payload[f] ELSE settings[f]]

\* the state outside the settings and the recognizer fields
nonSettingsVars ==
    <<sessionVars, trackerVars, session, everDisposed, scenarioVars, errorVars,
      todoVars, managerVars, dbVars, loopVars>>

\* updateGestureSettings(settings): the values are saved with setSetting and,
\* when every save succeeded, dispatched as SET_GESTURE_SETTINGS
UpdateGestureSettings(payload, outcome) ==
    /\ gestureSettings' =
           IF outcome = "saved"
           THEN ReduceGestureSettings(gestureSettings, payload)
           ELSE gestureSettings
    /\ lastOp' = [op |-> "updateGestureSettings", outcome |-> outcome]
    /\ UNCHANGED <<nonSettingsVars, configVars, stabilizerVars, observedVars,
                   heldVars, asyncDbVars>>

\* Math.floor(appState.gestureSettings.debounceTime / 33)
DebounceFramesOf(settings) == settings.debounceTime \div 33

\* new GestureRecognizer(handleGestureDetected, ..., {confidenceThreshold,
\* debounceFrames, sensitivity, ...}) of GestureManager, and the constructor:
\* historySize is not passed and takes its default
ManagerConstructs ==
    /\ confidenceThreshold' = FDiv(gestureSettings.confidenceThreshold, 10)
    /\ debounceFrames' = DebounceFramesOf(gestureSettings)
    /\ historySize' = DefaultHistorySize
    /\ sensitivity' = gestureSettings.sensitivity
    /\ ResetStabilizer
    /\ emitted' = NoEmission
    /\ emitCount' = 0
    /\ callCount' = 0
    /\ firstEmit' = 0
    /\ onlyNone' = TRUE
    /\ lastOp' = [op |-> "construct", outcome |-> "manager"]
    /\ UNCHANGED <<nonSettingsVars, settingsVars, heldVars, asyncDbVars>>

(***************************************************************************)
(* Initial states.                                                         *)
(***************************************************************************)
\* constructor: the configuration; threshold and sens are in tenths
Constructor(threshold, debounce, history, sens) ==
    /\ confidenceThreshold = FDiv(threshold, 10)
    /\ debounceFrames = debounce
    /\ historySize = history
    /\ sensitivity = sens
    /\ hands = NoHandle
    /\ isInitialized = FALSE
    /\ lastGesture = "none"
    /\ gestureConfidence = FZero
    /\ frameCount = 0
    /\ gestureHistory = <<>>

\* constructor: the error statistics; mr is the configured maxRetries
ErrorStatsConstructor(mr) ==
    /\ maxRetries = mr
    /\ consecutiveErrors = 0
    /\ retryCount = 0

\* TodoProvider after mount, with no stored tasks
TodoMounted ==
    /\ todoState = initialState
    /\ addCalls = {}
    /\ nextId = 1
    /\ addedOk = {}

\* GestureManager after mount: the values of its state hooks
ManagerMounted ==
    /\ isEnabled = TRUE
    /\ isProcessing = FALSE
    /\ showAddTaskDialog = FALSE
    /\ newTaskText = ""
    /\ feedbackMessage = "null"
    /\ pendingCommand = NoCommand
    /\ issued = NothingIssued

\* GestureManager mounted: no recognizer, no loop, no effect run yet
LoopsMounted ==
    /\ recognizerState = [k \in Recognizers |-> "unused"]
    /\ recErrors = [k \in Recognizers |-> 0]
    /\ recRetry = [k \in Recognizers |-> 0]
    /\ gestureRecognizerRef = NoRecognizer
    /\ loopState = [k \in Recognizers |-> "none"]
    /\ loopTarget = [k \in Recognizers |-> NoRecognizer]
    /\ fallbackMode = FALSE
    /\ managerRetryCount = 0
    /\ effectActive = FALSE

\* the state outside the recognizer fields, for a recognizer with the default
\* error configuration
AppIdle ==
    /\ ErrorStatsConstructor(DefaultMaxRetries)
    /\ TodoMounted
    /\ ManagerMounted
    /\ FactoryReset
    /\ LoopsMounted
    /\ gestureSettings = initialAppState.gestureSettings
    /\ holding = "nothing"
    /\ sinceEmit = 0
    /\ FactoryIdle

InitEnvironment ==
    /\ tracker = [h \in Handles |-> "unused"]
    /\ callbacks = {}
    /\ inflight = {}
    /\ lastOp = [op |-> "construct", outcome |-> "ok"]
    /\ emitted = NoEmission
    /\ emitCount = 0
    /\ callCount = 0
    /\ firstEmit = 0
    /\ onlyNone = TRUE
    /\ session = "Uninitialized"
    /\ everDisposed = FALSE

NoStream == [kind |-> "none", first |-> "none", second |-> "none", length |-> 0]

Init ==
    /\ \E c \in SessionConfigs : Constructor(c[1], c[2], c[3], 10)
    /\ InitEnvironment
    /\ AppIdle
    /\ stream = NoStream
    /\ landmarks = NoLandmarks
    /\ classified = "pending"

\* the stabilizer alone, fed arbitrary labels
InitStabilizer ==
    /\ \E t \in Thresholds, d \in 1..MaxDebounce, hs \in 1..MaxHistory :
           Constructor(t, d, hs, 10)
    /\ InitEnvironment
    /\ AppIdle
    /\ stream = NoStream
    /\ landmarks = NoLandmarks
    /\ classified = "pending"

\* configurations of the held-gesture scenario: the small ones, the
\* defaults, the largest debounce interval the default history holds, and
\* one that is larger than the history
HeldConfigs ==
    {<<t, d, hs>> : t \in Thresholds, d \in 1..MaxDebounce, hs \in 1..MaxHistory}
        \cup {<<8, 8, 10>>, <<10, 10, 10>>, <<10, 12, 10>>}

InitHeld ==
    /\ \E c \in HeldConfigs : Constructor(c[1], c[2], c[3], 10)
    /\ InitEnvironment
    /\ AppIdle
    /\ stream = NoStream
    /\ landmarks = NoLandmarks
    /\ classified = "pending"

\* a constant stream of one label other than none
InitConstant ==
    /\ \E t \in 1..10, d \in (1..MaxDebounce) \cup {5},
          hs \in (1..MaxHistory) \cup {10} :
           Constructor(t, d, hs, 10)
    /\ InitEnvironment
    /\ AppIdle
    /\ \E g \in GestureType \ {"none"} :
           stream = [kind |-> "constant", first |-> g, second |-> g,
                     length |-> MaxStream]
    /\ landmarks = NoLandmarks
    /\ classified = "pending"

\* thumbs_up and none in strict alternation, starting with either
InitAlternating ==
    /\ Constructor(8, 5, 10, 10)
    /\ InitEnvironment
    /\ AppIdle
    /\ \E g \in {"thumbs_up", "none"} :
           stream = [kind |-> "alternating", first |-> g,
                     second |-> IF g = "none" THEN "thumbs_up" ELSE "none",
                     length |-> MaxAlternating]
    /\ landmarks = NoLandmarks
    /\ classified = "pending"

InitClassify ==
    /\ \E s \in Sensitivities : Constructor(8, 8, 10, s)
    /\ InitEnvironment
    /\ AppIdle
    /\ stream = NoStream
    /\ landmarks \in LandmarkInputs
    /\ landmarks.len >= LandmarkCount => PalmDecided(landmarks, sensitivity)
    /\ classified = "pending"

\* configured values of maxRetries
RetryLimits == {1, DefaultMaxRetries}

\* a recognizer with error statistics
InitHealth ==
    /\ Constructor(8, 2, 2, 10)
    /\ InitEnvironment
    /\ \E mr \in RetryLimits : ErrorStatsConstructor(mr)
    /\ TodoMounted
    /\ ManagerMounted
    /\ FactoryReset
    /\ LoopsMounted
    /\ gestureSettings = initialAppState.gestureSettings
    /\ holding = "nothing"
    /\ sinceEmit = 0
    /\ FactoryIdle
    /\ stream = NoStream
    /\ landmarks = NoLandmarks
    /\ classified = "pending"

(***************************************************************************)
(* Scenario actions.                                                       *)
(***************************************************************************)
\* one call of handleGestureDetection with label g
Observe(g) ==
    /\ callCount < MaxFrames
    /\ handleGestureDetection(g)
    /\ lastOp' = [op |-> "observe", outcome |-> "ok"]
    /\ UNCHANGED <<configVars, sessionVars, trackerVars, session, everDisposed,
                   scenarioVars, appVars>>

NextLabel == IF callCount % 2 = 0 THEN stream.first ELSE stream.second

\* the next label of the stream is fed to handleGestureDetection
FeedStream ==
    /\ callCount < stream.length
    /\ handleGestureDetection(NextLabel)
    /\ lastOp' = [op |-> "observe", outcome |-> "ok"]
    /\ UNCHANGED <<configVars, sessionVars, trackerVars, session, everDisposed,
                   scenarioVars, appVars>>

\* the number of calls within which a held label is to be emitted
HoldBound == Max(debounceFrames, 10) + debounceFrames

\* labels of the frames before the hold
PrefixLabels == {"fist", "none"}

\* one call of handleGestureDetection before a gesture is held
ObserveBefore(g) ==
    /\ holding = "nothing"
    /\ callCount < MaxPrefix
    /\ handleGestureDetection(g)
    /\ lastOp' = [op |-> "observe", outcome |-> "ok"]
    /\ UNCHANGED <<configVars, sessionVars, trackerVars, session, everDisposed,
                   scenarioVars, errorVars, todoVars, managerVars, dbVars,
                   loopVars, gestureSettings, heldVars, asyncDbVars>>

\* from now on every frame carries the label g
StartHolding(g) ==
    /\ holding = "nothing"
    /\ holding' = g
    /\ sinceEmit' = 0
    /\ lastOp' = [op |-> "hold", outcome |-> "ok"]
    /\ UNCHANGED <<configVars, stabilizerVars, sessionVars, trackerVars,
                   observedVars, session, everDisposed, scenarioVars, errorVars,
                   todoVars, managerVars, dbVars, loopVars, gestureSettings,
                   asyncDbVars>>

\* one call of handleGestureDetection with the held label
ObserveHeld ==
    /\ holding # "nothing"
    /\ callCount < MaxPrefix + 2 * HoldBound + 1
    /\ handleGestureDetection(holding)
    /\ sinceEmit' = IF emitted' # NoEmission THEN 0 ELSE sinceEmit + 1
    /\ lastOp' = [op |-> "observe", outcome |-> "held"]
    /\ UNCHANGED <<configVars, sessionVars, trackerVars, session, everDisposed,
                   scenarioVars, errorVars, todoVars, managerVars, dbVars,
                   loopVars, gestureSettings, holding, asyncDbVars>>

\* one call of classifyGesture
Classify ==
    /\ classified = "pending"
    /\ classified' = classifyGesture(landmarks, sensitivity)
    /\ lastOp' = [op |-> "classify", outcome |-> "ok"]
    /\ UNCHANGED <<configVars, stabilizerVars, sessionVars, trackerVars,
                   observedVars, session, everDisposed, stream, landmarks,
                   appVars>>

\* the tracker reports a result for the input: no multiHandLandmarks field,
\* an empty list of hands, or one hand with the input landmark list
ResultOf(kind) ==
    CASE kind = "absent" -> NoHandsField
      [] kind = "empty"  -> HandsResult(<<>>)
      [] kind = "hand"   -> HandsResult(<<landmarks>>)

ResultCallback(kind) ==
    /\ callCount = 0
    /\ kind = "hand" => landmarks.present
    /\ onResults(ResultOf(kind))
    /\ lastOp' = [op |-> "onResults", outcome |-> kind]
    /\ UNCHANGED <<configVars, sessionVars, trackerVars, session, everDisposed,
                   scenarioVars, appVars>>

(***************************************************************************)
(* Specifications.                                                         *)
(***************************************************************************)
Next ==
    \/ \E o \in {"ok", "constructFails", "configureFails"} : Initialize(o)
    \/ ProcessFrame
    \/ \E h \in Handles, o \in {"resolved", "rejected"} : SendSettles(h, o)
    \/ \E h \in Handles, r \in SampleResults : TrackerResult(h, r)
    \/ Dispose

Spec == Init /\ [][Next]_vars

\* the session with result callbacks that throw
NextFaults ==
    \/ \E o \in {"ok", "constructFails", "configureFails"} : Initialize(o)
    \/ ProcessFrame
    \/ \E h \in Handles, o \in {"resolved", "rejected"} : SendSettles(h, o)
    \/ \E h \in Handles, r \in SampleResults : TrackerResult(h, r)
    \/ Dispose
    \/ \E h \in Handles, r \in SampleResults,
          where \in {"classify", "callback"}, rejects \in BOOLEAN :
           TrackerResultThrows(h, r, where, rejects)

SpecFaults == Init /\ [][NextFaults]_vars

NextStabilizer ==
    \/ \E g \in StreamLabels : Observe(g)
    \/ Dispose

SpecStabilizer == InitStabilizer /\ [][NextStabilizer]_vars

NextStream ==
    \/ FeedStream
    \/ Dispose

SpecConstant == InitConstant /\ [][NextStream]_vars

SpecAlternating == InitAlternating /\ [][NextStream]_vars

NextClassify ==
    \/ Classify
    \/ \E kind \in {"absent", "empty", "hand"} : ResultCallback(kind)

SpecClassify == InitClassify /\ [][NextClassify]_vars

NextHealth ==
    \/ \E o \in {"ok", "constructFails", "configureFails"} : Initialize(o)
    \/ ProcessFrameTracked
    \/ \E h \in Handles, o \in {"resolved", "rejected"} : SendSettlesTracked(h, o)
    \/ Dispose

SpecHealth == InitHealth /\ [][NextHealth]_vars

\* the recognizer part of a scenario of the task list and the manager
InitApp ==
    /\ Constructor(8, 8, 10, 10)
    /\ InitEnvironment
    /\ AppIdle
    /\ stream = NoStream
    /\ landmarks = NoLandmarks
    /\ classified = "pending"

NextManager ==
    \/ \E g \in GestureType : GestureDetected(g)
    \/ \E o \in {"ok", "fails"} : CommandSettles(o)
    \/ \E t \in NewTaskTexts : TypeText(t)
    \/ HandleAddTask
    \/ \E c \in addCalls, o \in {"ok", "fails"} : AddTaskSettles(c, o)
    \/ HandleCancelAddTask
    \/ \E i \in -1..(MaxTasks - 1) : SetSelectedTask(i)
    \/ SetEnabled

SpecManager == InitApp /\ [][NextManager]_vars

NextTodo ==
    \/ AddTask
    \/ \E d \in {"up", "down"} : MoveSelection(d)
    \/ \E c \in addCalls, o \in {"ok", "fails"} : AddTaskSettles(c, o)
    \/ \E i \in -1..(MaxTasks - 1) : SetSelectedTask(i)

SpecTodo == InitApp /\ [][NextTodo]_vars

NextLoop ==
    \/ \E en \in BOOLEAN : EffectRuns(en)
    \/ \E k \in Recognizers, o \in {"ok", "fails"} : InitializeSettles(k, o)
    \/ \E k \in Recognizers : LoopTick(k)
    \/ \E k \in Recognizers, o \in {"resolved", "rejected"} : ProcessFrameSettles(k, o)
    \/ RetryGestureRecognition

SpecLoop == InitApp /\ [][NextLoop]_vars

\* a requested animation frame arrives and a processFrame call settles
SpecLoopFair ==
    /\ SpecLoop
    /\ \A k \in Recognizers :
           /\ WF_vars(LoopTick(k))
           /\ WF_vars(\E o \in {"resolved", "rejected"} : ProcessFrameSettles(k, o))

NextReducer ==
    \/ DispatchSetTasks
    \/ DispatchAddTask
    \/ DispatchUpdateTask
    \/ DispatchDeleteTask
    \/ DispatchToggleTaskCompletion
    \/ DispatchSetSelectedTask
    \/ DispatchMoveSelection
    \/ DispatchClearSelection

SpecReducer == InitApp /\ [][NextReducer]_vars

NextHeld ==
    \/ \E g \in PrefixLabels : ObserveBefore(g)
    \/ \E g \in PrefixLabels \ {"none"} : StartHolding(g)
    \/ ObserveHeld

SpecHeld == InitHeld /\ [][NextHeld]_vars

NextSettings ==
    \/ \E p \in SettingsPayloads, o \in {"saved", "saveFails"} :
           UpdateGestureSettings(p, o)
    \/ ManagerConstructs

SpecSettings == InitApp /\ [][NextSettings]_vars

NextDatabase ==
    \/ \E o \in {"opened", "restoreFails", "unavailable"} : CreateDatabase(o)
    \/ \E id \in TaskKeys : DbAddTask(id)
    \/ \E id \in TaskKeys : DbDeleteTask(id)
    \/ \E k \in SettingKeys : DbSetSetting(k)
    \/ \E ok \in BOOLEAN, u \in SUBSET SettingKeys : BackupData(ok, u)
    \/ \E ok \in BOOLEAN, u \in SUBSET SettingKeys : SwitchToFallback(ok, u)
    \/ \E o \in {"recovered", "fails"} : AttemptRecovery(o)
    \/ Reset

SpecDatabase == InitApp /\ [][NextDatabase]_vars

NextFactoryCalls ==
    \/ \E c \in FactoryCallIds,
          op \in {"createDatabase", "switchToFallback", "attemptRecovery"} :
           FactoryCalled(c, op)
    \/ \E c \in FactoryCallIds, ok \in BOOLEAN : CreateInitSettles(c, ok)
    \/ \E c \in FactoryCallIds, ok \in BOOLEAN : CreateRestoreSettles(c, ok)
    \/ \E c \in FactoryCallIds : MemoryInitSettles(c)
    \/ \E c \in FactoryCallIds : MemoryRestoreSettles(c)
    \/ \E c \in FactoryCallIds, ok \in BOOLEAN : BackupSettles(c, ok)
    \/ \E c \in FactoryCallIds, ok \in BOOLEAN : RecoveryInitSettles(c, ok)
    \/ \E c \in FactoryCallIds, ok \in BOOLEAN : RecoveryRestoreSettles(c, ok)
    \/ Reset

SpecFactoryCalls == InitApp /\ [][NextFactoryCalls]_vars

NextInitialize ==
    \/ \E c \in InitCallIds, available \in BOOLEAN : initialize(c, available)
    \/ \E n \in AttemptIds, e \in {"success", "error", "blocked"} : OpenSettles(n, e)
    \/ ConnectionCloses

SpecInitialize == InitApp /\ [][NextInitialize]_vars

(***************************************************************************)
(* Properties.                                                             *)
(***************************************************************************)
\* the guard of processFrame lets a frame through
CanProcess == hands # NoHandle /\ isInitialized

\* C1: onGestureDetected is never invoked with the label none, and a stream
\* of none labels only produces no emission at all.
C1_NeverEmitsNone ==
    /\ emitted # "none"
    /\ onlyNone => (emitCount = 0 /\ emitted = NoEmission)

\* C1 witness: a none frame on a debounce boundary with confidence at or
\* above the threshold, where only the label keeps the callback from firing
C1_Witness ==
    /\ lastOp.op = "observe"
    /\ lastGesture = "none"
    /\ frameCount > 0
    /\ frameCount % debounceFrames = 0
    /\ FGeq(gestureConfidence, confidenceThreshold)
    /\ emitted = NoEmission

\* C2: every call is counted in frameCount, an emission happens only on a
\* call whose frameCount is a multiple of debounceFrames, and N calls since
\* construction or dispose produce at most floor(N / debounceFrames)
\* emissions (so none before the debounceFrames-th call).
C2_DebounceRate ==
    /\ frameCount = callCount
    /\ emitted # NoEmission => frameCount % debounceFrames = 0
    /\ emitCount <= callCount \div debounceFrames

\* C2 witness: with a debounce interval of at least two frames, every
\* interval so far has produced an emission, and there were at least two
C2_Witness ==
    /\ debounceFrames >= 2
    /\ emitCount >= 2
    /\ emitCount = callCount \div debounceFrames
    /\ "none" \in {gestureHistory[i] : i \in 1..Len(gestureHistory)}

\* C3: from a fresh stabilizer a constant stream of one label L other than
\* none emits nothing before the debounceFrames-th call, emits L first exactly
\* on the debounceFrames-th call, and with confidenceThreshold 0.6 and
\* debounceFrames 5 ten observations have produced at least one emission.
C3_ConstantStreamEmits ==
    /\ emitted # NoEmission => emitted = stream.first
    /\ callCount < debounceFrames => emitCount = 0
    /\ callCount >= debounceFrames => firstEmit = debounceFrames
    /\ (confidenceThreshold = FDiv(6, 10) /\ debounceFrames = 5 /\ callCount = 10)
           => emitCount >= 1

\* C3 witness: the scenario of the regression test after ten observations
C3_Witness ==
    /\ confidenceThreshold = FDiv(6, 10)
    /\ debounceFrames = 5
    /\ stream.first = "thumbs_up"
    /\ callCount = 10
    /\ firstEmit = 5

\* C4: with confidenceThreshold 0.8, debounceFrames 5 and historySize 10 a
\* strictly alternating stream of thumbs_up and none never emits.
C4_AlternatingNeverEmits == emitCount = 0 /\ emitted = NoEmission

\* C4 witness: a thumbs_up frame on a debounce boundary after the history
\* has filled, with the window share 3/5
C4_Witness ==
    /\ callCount > historySize
    /\ frameCount % debounceFrames = 0
    /\ lastGesture = "thumbs_up"
    /\ gestureConfidence = FDiv(3, 5)
    /\ Len(gestureHistory) = 10

LabelFed == gestureHistory[Len(gestureHistory)]

\* C5: classifyGesture returns one of the seven labels for every input, none
\* for an absent list and for a list of fewer than 21 landmarks; a tracker
\* result without hands is fed to the stabilizer as none, and a result with a
\* hand as one of the seven labels.
C5_ClassifyTotal ==
    /\ classified # "pending" =>
          /\ classified \in GestureType
          /\ (~landmarks.present \/ landmarks.len < LandmarkCount)
                 => classified = "none"
    /\ lastOp.op = "onResults" =>
          /\ LabelFed \in GestureType
          /\ lastOp.outcome \in {"absent", "empty"} => LabelFed = "none"

\* C5 witness: a short list was classified and an empty result was delivered
C5_Witness ==
    /\ landmarks.present
    /\ landmarks.len = 20
    /\ classified = "none"
    /\ lastOp = [op |-> "onResults", outcome |-> "empty"]
    /\ lastGesture = "none"

OnlyThumbExtended(lm) ==
    /\ isThumbExtended(lm)
    /\ \A f \in {"index", "middle", "ring", "pinky"} :
           ~(lm.pt[FingerTips[f]][2] < lm.pt[FingerMcps[f]][2])

\* C6 as stated: only the thumb extended and the thumb tip at least 0.05
\* above the thumb MCP, the difference 0.05 included, gives thumbs_up.
C6_ThumbsUpAtLeastMargin ==
    (/\ classified # "pending"
     /\ landmarks.present
     /\ landmarks.len >= LandmarkCount
     /\ OnlyThumbExtended(landmarks)
     /\ landmarks.pt[4][2] <= landmarks.pt[2][2] - 5)
        => classified = "thumbs_up"

\* C6 amended: only the thumb extended and the thumb tip more than 0.05
\* above the thumb MCP gives thumbs_up.
C6_ThumbsUpBeyondMargin ==
    (/\ classified # "pending"
     /\ landmarks.present
     /\ landmarks.len >= LandmarkCount
     /\ OnlyThumbExtended(landmarks)
     /\ landmarks.pt[4][2] < landmarks.pt[2][2] - 5)
        => classified = "thumbs_up"

\* C6 witness: thumbs_up for a thumb tip 0.06 above the MCP
C6_Witness ==
    /\ classified = "thumbs_up"
    /\ OnlyThumbExtended(landmarks)
    /\ landmarks.pt[4][2] = landmarks.pt[2][2] - 6

\* C7: after dispose(), called once or twice in a row, getStats() has the
\* initial values, no error was raised, and the second of two calls in a row
\* changes nothing of the recognizer or the tracker.
C7_DisposeIdempotent ==
    /\ [](lastOp.op \in {"dispose", "disposeAgain"} =>
              /\ getStats = InitialStats
              /\ lastOp.outcome = "ok")
    /\ [][lastOp'.op = "disposeAgain" =>
              UNCHANGED <<stabilizerVars, sessionVars, trackerVars>>]_vars

\* C7 witness: a second dispose in a row, after a handle had been opened and
\* closed and a callback had still been pending
C7_Witness ==
    /\ lastOp.op = "disposeAgain"
    /\ \E h \in Handles : tracker[h] = "closed" /\ h \in inflight
    /\ getStats = InitialStats

\* C8: while the recognizer is disposed the stabilizer state stays at its
\* reset values and nothing is emitted, whatever the tracker still delivers.
C8_PostDisposeCallbackIsNoOp ==
    session = "Disposed" =>
        /\ getStats = InitialStats
        /\ gestureHistory = <<>>
        /\ emitted = NoEmission

C10_DisposedIsTerminal == everDisposed => ~CanProcess

\* C10 amended: dispose() leaves the instance not Ready, and an instance
\* that is not Ready becomes Ready only by an initialize() that succeeds.
C10_DisposedUntilInitialize ==
    /\ [](lastOp.op \in {"dispose", "disposeAgain"} => ~CanProcess)
    /\ [][(~CanProcess /\ CanProcess') =>
              lastOp' = [op |-> "initialize", outcome |-> "ok"]]_vars

\* C10 witness: a disposed instance that was initialized again forwards a
\* frame
C10_Witness ==
    /\ everDisposed
    /\ CanProcess
    /\ lastOp = [op |-> "processFrame", outcome |-> "sent"]

\* the handles that initialize() has created and nobody has closed
OpenHandles == {h \in Handles : tracker[h] = "open"}

\* C11: every handle created by initialize() has been closed except possibly
\* the current one (this.hands), so at most one is open at any time and none
\* after dispose().
C11_AtMostOneOpenHandle ==
    /\ OpenHandles \subseteq {hands}
    /\ Cardinality(OpenHandles) <= 1
    /\ lastOp.op \in {"dispose", "disposeAgain"} => OpenHandles = {}

C13_FailedInitializeNotReady ==
    lastOp = [op |-> "initialize", outcome |-> "throw"] => ~CanProcess

TaskIds(tasks) == {tasks[i].id : i \in 1..Len(tasks)}

\* C15: no added task is lost: every addTask call that has completed
\* successfully, calls made before an earlier one has finished included, has
\* its task in state.tasks, one task per call.
C15_NoAddedTaskLost ==
    /\ addedOk \subseteq TaskIds(todoState.tasks)
    /\ Len(todoState.tasks) = Cardinality(addedOk)

\* the event triggers no command: nothing is called, and the task list, the
\* selection, the dialog and the pending command stay as they are
C14_NoCommand ==
    /\ issued'.command \in {"none", "ignored"}
    /\ todoState'.tasks = todoState.tasks
    /\ todoState'.selectedTaskIndex = todoState.selectedTaskIndex
    /\ UNCHANGED <<showAddTaskDialog, newTaskText, pendingCommand, isProcessing>>

\* the event leaves the task list and the selection alone
C14_ListUntouched ==
    /\ todoState'.tasks = todoState.tasks
    /\ todoState'.selectedTaskIndex = todoState.selectedTaskIndex

\* the command the mapping gives for the gesture is the one that is called,
\* on the selected task or in the mapped direction, and nothing else changes
C14_Mapped(g) ==
    CASE g = "thumbs_up" ->
            /\ issued'.command = "openAddTaskDialog"
            /\ showAddTaskDialog'
            /\ C14_ListUntouched
            /\ UNCHANGED <<newTaskText, pendingCommand, isProcessing>>
      [] g = "peace_sign" ->
            IF HasSelectedTask
            THEN /\ issued'.command = "toggleTaskCompletion"
                 /\ issued'.id = SelectedTask.id
                 /\ pendingCommand' =
                        [type |-> "updateTask", id |-> SelectedTask.id,
                         completed |-> ~SelectedTask.completed]
                 /\ C14_ListUntouched
                 /\ UNCHANGED <<showAddTaskDialog, newTaskText>>
            ELSE C14_NoCommand
      [] g = "fist" ->
            IF HasSelectedTask
            THEN /\ issued'.command = "deleteTask"
                 /\ issued'.id = SelectedTask.id
                 /\ pendingCommand'.type = "deleteTask"
                 /\ pendingCommand'.id = SelectedTask.id
                 /\ C14_ListUntouched
                 /\ UNCHANGED <<showAddTaskDialog, newTaskText>>
            ELSE C14_NoCommand
      [] g = "point_up" ->
            IF Len(todoState.tasks) > 0
            THEN /\ issued'.command = "moveSelection"
                 /\ issued'.direction = "up"
                 /\ todoState'.selectedTaskIndex =
                        (IF todoState.selectedTaskIndex <= 0
                         THEN Len(todoState.tasks) - 1
                         ELSE todoState.selectedTaskIndex - 1)
                 /\ todoState'.tasks = todoState.tasks
                 /\ UNCHANGED <<showAddTaskDialog, newTaskText, pendingCommand,
                                isProcessing>>
            ELSE C14_NoCommand
      [] g = "two_fingers" ->
            IF Len(todoState.tasks) > 0
            THEN /\ issued'.command = "moveSelection"
                 /\ issued'.direction = "down"
                 /\ todoState'.selectedTaskIndex =
                        (IF todoState.selectedTaskIndex >= Len(todoState.tasks) - 1
                         THEN 0
                         ELSE todoState.selectedTaskIndex + 1)
                 /\ todoState'.tasks = todoState.tasks
                 /\ UNCHANGED <<showAddTaskDialog, newTaskText, pendingCommand,
                                isProcessing>>
            ELSE C14_NoCommand
      [] g = "open_palm" ->
            /\ issued'.command = "cancelAddTask"
            /\ ~showAddTaskDialog'
            /\ newTaskText' = ""
            /\ C14_ListUntouched
            /\ UNCHANGED <<pendingCommand, isProcessing>>
      [] OTHER -> C14_NoCommand

\* the command that was pending acts on its task only
C14_SettledOnItsTask ==
    IF pendingCommand.type = "updateTask"
    THEN /\ Len(todoState'.tasks) = Len(todoState.tasks)
         /\ \A i \in 1..Len(todoState.tasks) :
               /\ todoState'.tasks[i].id = todoState.tasks[i].id
               /\ todoState'.tasks[i].completed =
                     (IF todoState.tasks[i].id = pendingCommand.id
                      THEN pendingCommand.completed
                      ELSE todoState.tasks[i].completed)
    ELSE /\ TaskIds(todoState'.tasks) = TaskIds(todoState.tasks) \ {pendingCommand.id}
         /\ \A i \in 1..Len(todoState'.tasks) :
               \E j \in 1..Len(todoState.tasks) :
                   todoState'.tasks[i] = todoState.tasks[j]

\* C14 as stated: every gesture event delivered to GestureManager triggers
\* exactly its mapped command and no other: thumbs_up opens the add-task
\* dialog, peace_sign toggles the selected task, fist deletes it, point_up
\* moves the selection up, two_fingers down, open_palm closes the dialog and
\* clears its text, none triggers nothing.
C14_EveryEventTriggersMapped ==
    [][lastOp'.op = "gesture" => C14_Mapped(issued'.gesture)]_vars

\* C14 amended: an event delivered while no earlier gesture command is still
\* being processed triggers exactly its mapped command and no other, and the
\* command acts on the selected task only; an event delivered while a
\* command is being processed is ignored and triggers no command.
C14_IdleEventTriggersMapped ==
    /\ [][lastOp'.op = "gesture" =>
              IF isProcessing
              THEN issued'.command = "ignored" /\ C14_NoCommand
              ELSE C14_Mapped(issued'.gesture)]_vars
    /\ [][(lastOp'.op = "commandSettled" /\ lastOp'.outcome = "ok") =>
              C14_SettledOnItsTask]_vars

\* C14 witness: with two tasks and the second one selected, fist has called
\* deleteTask for the second task
C14_Witness ==
    /\ lastOp.op = "gesture"
    /\ issued = Issue("fist", "deleteTask", 2, "none")
    /\ Len(todoState.tasks) = 2
    /\ todoState.selectedTaskIndex = 1
    /\ isProcessing

\* C16 (as stated): switchToFallback preserves data: the in-memory database
\* it returns contains every task and every setting the previously active
\* database held at the moment of the switch.
C16_SwitchPreservesData ==
    [][lastOp'.op = "switchToFallback"
          => /\ dbInstance' = "inMemory"
             /\ ActiveData.tasks \subseteq memory'.tasks
             /\ ActiveData.settings \subseteq memory'.settings]_vars

\* C16 (amended): when the export made by switchToFallback succeeds, the
\* in-memory database it returns holds exactly the tasks of the previously
\* active database and those of its settings that could be read; when there
\* is nothing to export or the export throws, it holds the last backup, or
\* nothing when there is none.
C16_SwitchPreservesExported ==
    [][lastOp'.op = "switchToFallback"
          => /\ dbInstance' = "inMemory"
             /\ IF lastOp'.outcome = "exported"
                THEN /\ memory'.tasks = ActiveData.tasks
                     /\ memory'.settings =
                            ActiveData.settings \ lastOp'.unreadable
                ELSE memory' = IF fallbackData.present
                               THEN DataOf(fallbackData) ELSE NoData]_vars

\* an IndexedDB database with two tasks and a setting was switched to the
\* in-memory database, an older backup being replaced
C16_Witness ==
    /\ lastOp.op = "switchToFallback"
    /\ lastOp.outcome = "exported"
    /\ dbInstance = "inMemory"
    /\ stored.tasks = TaskKeys
    /\ stored.settings = {"theme"}
    /\ memory = stored
    /\ fallbackData = Backup(stored)

\* the fingers the extension predicates report as extended
C17_Extended ==
    LET e == ExtensionFlags(landmarks) IN {f \in DOMAIN e : e[f]}

\* the conditions of the ordered rule list on the input, E being the set of
\* extended fingers
C17_RuleMatches(i, E) ==
    CASE i = 1 -> E = {"thumb"} /\ isThumbPointingUp(landmarks)
      [] i = 2 -> E = {"index", "middle"}
                     /\ areFingersSpread(landmarks.pt[8], landmarks.pt[12])
      [] i = 3 -> E = {"index"}
                     /\ isFingerPointingUp(landmarks.pt[8], landmarks.pt[0])
      [] i = 4 -> E = {"index", "middle"}
                     /\ ~areFingersSpread(landmarks.pt[8], landmarks.pt[12])
      [] i = 5 -> Cardinality(E) <= 1
      [] i = 6 -> Cardinality(E) >= 4 /\ isPalmOpen(landmarks, sensitivity)
      [] i = 7 -> TRUE

C17_RuleLabels ==
    <<"thumbs_up", "peace_sign", "point_up", "two_fingers", "fist",
      "open_palm", "none">>

C17_FirstMatch ==
    LET E == C17_Extended
        matching == {i \in 1..7 : C17_RuleMatches(i, E)}
        first == CHOOSE i \in matching : \A j \in matching : i <= j
    IN  C17_RuleLabels[first]

\* C17: for every combination of the five extension predicates and the
\* pointing-up, spread and palm-open predicates, classifyGesture returns the
\* label of the first matching rule of the ordered list thumbs_up,
\* peace_sign, point_up, two_fingers, fist (count <= 1), open_palm
\* (count >= 4 and palm open), none.
C17_FirstMatchingRule ==
    (/\ classified # "pending"
     /\ landmarks.present
     /\ landmarks.len >= LandmarkCount)
        => classified = C17_FirstMatch

\* C17 witness: only the index finger is extended and it points up, so the
\* fist rule matches as well and point_up, the earlier rule, is returned
C17_Witness ==
    /\ classified = "point_up"
    /\ landmarks.present
    /\ landmarks.len = LandmarkCount
    /\ C17_Extended = {"index"}
    /\ C17_RuleMatches(3, C17_Extended)
    /\ C17_RuleMatches(5, C17_Extended)

\* the number of entries equal to g among the n most recent entries of h
C18_Agreeing(h, n, g) ==
    Cardinality({i \in (Len(h) - n + 1)..Len(h) : h[i] = g})

\* C18: a call to the stabilizer emits the current label if and only if,
\* after the confidence update of that call, confidence >=
\* confidenceThreshold, frameCount is a multiple of debounceFrames and the
\* label is not none; when all three hold the callback is invoked exactly
\* once with that label.
C18_EmitsIffStableDueAndNamed ==
    [][lastOp'.op = "observe" =>
          LET label   == gestureHistory'[Len(gestureHistory')]
              recent  == RecentGestures(gestureHistory')
              updated == UpdatedConfidence(gestureConfidence, lastGesture,
                             label, CurrentConfidence(gestureHistory', label))
              all     == /\ FGeq(updated, confidenceThreshold)
                         /\ frameCount' % debounceFrames = 0
                         /\ label # "none"
          IN  /\ (emitted' # NoEmission) <=> all
              /\ emitted' \in {label, NoEmission}
              /\ emitCount' = emitCount + (IF all THEN 1 ELSE 0)]_vars

\* C18 witness: a call emitted thumbs_up on a frame that is due, after a
\* call that was confident and named but not due
C18_Witness ==
    /\ lastOp.op = "observe"
    /\ emitted = "thumbs_up"
    /\ debounceFrames = 2
    /\ frameCount = 4
    /\ emitCount = 2
    /\ gestureHistory = <<"thumbs_up", "thumbs_up">>

\* C19: the confidence left by one stabilizer call is 0 if the call
\* emitted; otherwise min(previous confidence + 0.1, windowConfidence) if
\* the label equals the previous lastGesture and windowConfidence if it
\* differs, windowConfidence being the share of the current label among the
\* most recent min(debounceFrames, history length) history entries;
\* lastGesture always becomes the current label.
C19_ConfidenceLeft ==
    [][lastOp'.op = "observe" =>
          LET label  == gestureHistory'[Len(gestureHistory')]
              n      == Min(debounceFrames, Len(gestureHistory'))
              window == FDiv(C18_Agreeing(gestureHistory', n, label), n)
              raised == FAdd(gestureConfidence, FDiv(1, 10))
          IN  /\ lastGesture' = label
              /\ gestureConfidence' =
                    IF emitted' # NoEmission THEN FZero
                    ELSE IF label = lastGesture
                         THEN (IF FLess(window, raised) THEN window ELSE raised)
                         ELSE window]_vars

\* C19 witness: the label was repeated, nothing was emitted and the
\* confidence left is the previous one plus 0.1, below the window share
C19_Witness ==
    /\ lastOp.op = "observe"
    /\ emitted = NoEmission
    /\ callCount >= 3
    /\ gestureHistory = <<"fist", "fist", "fist">>
    /\ lastGesture = "fist"
    /\ gestureConfidence = FAdd(FDiv(1, 10), FDiv(1, 10))

\* C20: every emission is backed by window agreement: whenever the
\* stabilizer emits label L, the fraction of entries equal to L among the
\* most recent min(debounceFrames, history length) history entries, the
\* current frame included, is at least confidenceThreshold.
C20_EmissionBackedByWindow ==
    emitted # NoEmission =>
        LET n == Min(debounceFrames, Len(gestureHistory))
        IN  \E t \in Thresholds :
                /\ confidenceThreshold = FDiv(t, 10)
                /\ 10 * C18_Agreeing(gestureHistory, n, emitted) >= t * n

\* C20 witness: an emission from a window that is not unanimous
C20_Witness ==
    /\ emitted = "fist"
    /\ debounceFrames = 2
    /\ gestureHistory = <<"fist", "thumbs_up", "fist">>
    /\ confidenceThreshold = FDiv(5, 10)

\* C21: after every processed frame the history holds exactly the most
\* recent min(frameCount, historySize) labels in arrival order, the oldest
\* entry being evicted first, so getStats().historyLength never exceeds
\* historySize.
C21_HistoryIsRecentLabels ==
    [][lastOp'.op = "observe" =>
          LET arrived == Append(gestureHistory, lastGesture')
              n       == Min(frameCount', historySize)
          IN  /\ Len(gestureHistory) = Min(frameCount, historySize)
              /\ gestureHistory' =
                     [i \in 1..n |-> arrived[Len(arrived) - n + i]]
              /\ getStats'.historyLength = n
              /\ getStats'.historyLength <= historySize]_vars

\* C21 witness: the fourth frame of a history of two evicted the second label
C21_Witness ==
    /\ lastOp.op = "observe"
    /\ historySize = 2
    /\ frameCount = 4
    /\ gestureHistory = <<"fist", "none">>
    /\ getStats.historyLength = 2

\* a processFrame call has failed in this step: it threw at its guard, or
\* the send it awaited was rejected
C22_FrameFailed(op) ==
    \/ op = [op |-> "processFrame", outcome |-> "throw"]
    \/ op = [op |-> "send", outcome |-> "rejected"]
    \/ op = [op |-> "onResults", outcome |-> "throwRejectsSend"]

\* C22: a processFrame call that fails, because the session is not Ready or
\* because the tracker's send rejects or throws, leaves the stabilizer state
\* (history, lastGesture, confidence, frameCount) as it was and emits
\* nothing.
C22_FailedFrameLeavesStabilizer ==
    [][C22_FrameFailed(lastOp') =>
          /\ UNCHANGED stabilizerVars
          /\ emitCount' = emitCount]_vars

\* C23: an exception raised while a tracker result is handled (in
\* classification, in stabilization or in the consumer's callback) is
\* caught inside the result callback; it never propagates out of the result
\* callback into the tracker or out of processFrame.
C23_NoExceptionLeavesCallback ==
    lastOp.op = "onResults" => lastOp.outcome = "ok"

\* C24: GestureManager drives each recognizer with at most one frame loop:
\* a loop started for a recognizer makes no further processFrame call once
\* that recognizer has been disposed, and no two processFrame calls are in
\* flight at the same time on the same recognizer.
C24_OneLoopPerRecognizer ==
    [][/\ \A k \in Recognizers :
              (recognizerState[k] = "disposed" /\ loopState'[k] = "inFlight")
                  => loopState[k] = "inFlight"
       /\ \A j, k \in Recognizers :
              (/\ j # k
               /\ loopState'[j] = "inFlight"
               /\ loopState'[k] = "inFlight")
                  => loopTarget'[j] # loopTarget'[k]]_vars

\* C25: if frame-processing errors keep being reported to GestureManager
\* (more than maxRetries = 3 of them), GestureManager eventually switches to
\* fallback mode without any user action (no retry, gestures left enabled).
C25_ErrorsLeadToFallback ==
    ([]<>(lastOp.op = "frameError") /\ [](lastOp.op # "retry" /\ isEnabled))
        => <>fallbackMode

\* C26: every recognizer the application constructs satisfies
\* 1 <= debounceFrames <= historySize, for every value of the debounceTime
\* setting that the settings layer can store.
C26_DebounceFitsHistory ==
    /\ 1 <= debounceFrames
    /\ debounceFrames <= historySize

\* C27: a held gesture is always eventually recognised: from any reachable
\* stabilizer state with debounceFrames >= 1 and confidenceThreshold in
\* (0, 1], if every subsequent frame carries the same label L other than
\* none, L is emitted within max(debounceFrames, 10) + debounceFrames
\* further calls, and again within as many calls of each emission.
C27_HeldGestureEmitted ==
    holding # "nothing" =>
        /\ sinceEmit < HoldBound
        /\ (lastOp.outcome = "held" /\ emitted # NoEmission)
               => emitted = holding

\* C27 witness: with debounceFrames 10 and threshold 1 the held label was
\* emitted by the last of the calls the bound allows, and once before
C27_Witness ==
    /\ holding = "fist"
    /\ debounceFrames = 10
    /\ lastOp.outcome = "held"
    /\ emitted = "fist"
    /\ emitCount >= 2
    /\ frameCount = 30

\* C28: after any sequence of the reducer actions SET_TASKS, ADD_TASK,
\* UPDATE_TASK, DELETE_TASK, TOGGLE_TASK_COMPLETION, SET_SELECTED_TASK,
\* MOVE_SELECTION and CLEAR_SELECTION applied to the initial state,
\* selectedTaskIndex is -1 or a valid index of tasks, and it is -1 whenever
\* tasks is empty.
C28_SelectedIndexValid ==
    /\ -1 <= todoState.selectedTaskIndex
    /\ todoState.selectedTaskIndex <= Len(todoState.tasks) - 1
    /\ Len(todoState.tasks) = 0 => todoState.selectedTaskIndex = -1

\* C28 witness: the last task of the list was selected and another task was
\* deleted, so the selection moved with the end of the list
C28_Witness ==
    /\ lastOp = [op |-> "dispatch", outcome |-> "DELETE_TASK"]
    /\ Len(todoState.tasks) = MaxTasks - 1
    /\ todoState.selectedTaskIndex = MaxTasks - 2
    /\ todoState.tasks[1].id = MaxTasks + 1

\* C29: in every state of the factory calls, interleaved at their awaits,
\* isUsingFallbackDatabase() is true exactly when the instance is the
\* in-memory database
C29_FallbackFlagMatchesInstance ==
    isUsingFallback <=> dbInstance = "inMemory"

\* C30: a call of initialize() made after a call has failed is not given the
\* failed attempt, and a call made while an attempt is pending is given that
\* attempt and opens nothing
C30_RetryOpensAgain ==
    [][\A c \in InitCallIds :
          (initCalls[c] = NotCalled /\ initCalls'[c] # NotCalled /\ ~dbIsInitialized) =>
              /\ (\E d \in InitCallIds :
                      /\ initCalls[d] \in AttemptIds
                      /\ attempts[initCalls[d]] = "rejected")
                 => /\ initCalls'[c] \in AttemptIds
                    /\ attempts[initCalls'[c]] # "rejected"
              /\ (initializationPromise # NoPromise
                      /\ attempts[initializationPromise] = "pending")
                 => /\ initCalls'[c] = initializationPromise
                    /\ attempts' = attempts]_vars

====
